---------------------------- MODULE Spec2Model ----------------------------
(***************************************************************************)
(* Remote-capable service execution engine of unshackle: the client-side   *)
(* Local Session Cache, the Remote Service Proxy (_make_request), the      *)
(* Remote Auth Orchestrator, the session serializer and the stateless      *)
(* remote handlers.                                                        *)
(*                                                                         *)
(* Python values are modelled as follows.  None and every empty container  *)
(* (both falsy in Python) are the empty function <<>>.  A dict is a        *)
(* function whose domain is its key set.  A string that the code inspects  *)
(* character by character (a proxy value) is a tuple of one-character      *)
(* strings; opaque strings are TLA+ strings.  time.time() is the variable  *)
(* now, in whole seconds.                                                  *)
(***************************************************************************)
EXTENDS Integers, Sequences, FiniteSets, TLC

VARIABLES
    now,            \* time.time() in seconds
    ticks,          \* number of clock jumps taken so far (bounded)
    sessions,       \* LocalSessionCache.sessions: remote_url -> service_tag -> profile -> entry
    file,           \* content of remote_sessions.json
    ret,            \* record of the last LocalSessionCache call (operation, key, pre-state, result)
    stores,         \* number of direct store_session calls made (bounded)
    pc,             \* position of the RemoteService call in _make_request
    data,           \* the request body dict of the running _make_request
    retry_count,    \* _make_request's retry_count argument
    cached_session, \* _make_request's local cached_session
    phase,          \* which POST is outstanding: "first" (line 207) or "replay" (lines 241/269)
    resp,           \* the HTTP response of the outstanding POST
    result,         \* what the top-level _make_request call returned or raised
    log,            \* events of the running attempt (since _make_request was last entered), in order
    stats,          \* counts over the running top-level call: posts, answers, auths, replays, and the delays slept
    calls,          \* number of top-level calls started (bounded)
    call,           \* the running call: endpoint, and the proxy's cookies_content / credential
    self_session,   \* RemoteService.session, the proxy's in-process session
    hbody,          \* HandlerSpec: the request under test (endpoint, api key tier, body)
    hresp,          \* HandlerSpec: the handler's response to hbody
    sess,           \* SerializeSpec: the requests.Session being serialized
    rec,            \* SerializeSpec: serialize_session(sess)
    tgt,            \* SerializeSpec: the target session before deserialize_session
    out,            \* SerializeSpec: the target session after deserialize_session(rec, tgt)
    titles,         \* TracksSpec: titles_list, what service_instance.get_titles() returned
    treq,           \* TracksSpec: the body of the tracks request (wanted, season, episode)
    tresp,          \* TracksSpec: remote_get_tracks's response to treq
    remote_configs, \* ServicesSpec: config.remote_services, the configured remotes in order
    advertised,     \* ServicesSpec: what each remote contacted so far answered to GET /api/remote/services
    remote_services,\* ServicesSpec: RemoteServiceManager.remote_services, in insertion order
    lookup,         \* ServicesSpec: the last Services.get_tag call (value, result)
    rcall,          \* RetrySpec: the running request call (client, method, retry configuration)
    attempts,       \* RetrySpec: the outcomes of the underlying requests made so far, in order
    slept,          \* RetrySpec: the delays slept between the attempts, in order
    outcome,        \* RetrySpec: what the call returned or raised
    facade,         \* ConfigSpec: the facade: its configuration and the live client's headers
    updated,        \* ConfigSpec: the last update_config call (argument, facade before, raised)
    files,          \* FileSpec: what the file system holds at the path of the URL
    sent,           \* FileSpec: the response of LocalFileAdapter.send
    served,         \* TitlesSpec: the titles the adapter returned on the server
    rebuilt,        \* TitlesSpec: the titles RemoteService.get_titles rebuilt from the response
    disk,           \* DiskSpec: remote_sessions.json as the file system holds it
    mem,            \* DiskSpec: LocalSessionCache.sessions of each process that has the cache open
    wr,             \* DiskSpec: the write_text under way (process, document), if any
    done,           \* DiskSpec: the last cache operation that completed, and what it returned
    lreq,           \* LicenseSpec: the /license or /decrypt request under way
    lres,           \* LicenseSpec: the handler's response and what it did, in order
    tmp,            \* CookieSpec: the temporary cookie files that exist on the server
    loaded,         \* CookieSpec: the last load_cookies_from_content call and how it ended
    saved,          \* ProfileSpec: the last authenticate_and_save call
    found           \* ProfileSpec: the last cache lookup of a RemoteService request

vars == <<now, ticks, sessions, file, ret, stores, pc, data, retry_count, cached_session,
          phase, resp, result, log, stats, calls, call, self_session, hbody, hresp, sess, rec,
          tgt, out, titles, treq, tresp, remote_configs, advertised, remote_services, lookup,
          rcall, attempts, slept, outcome, facade, updated, files, sent, served, rebuilt,
          disk, mem, wr, done, lreq, lres, tmp, loaded, saved, found>>

cacheVars  == <<sessions, file, ret, stores>>
clientVars == <<pc, data, retry_count, cached_session, phase, resp, result, log, stats, calls, call, self_session>>
handlerVars == <<hbody, hresp>>
serializeVars == <<sess, rec, tgt, out>>
tracksVars == <<titles, treq, tresp>>
servicesVars == <<remote_configs, advertised, remote_services, lookup>>
retryVars == <<rcall, attempts, slept, outcome>>
configVars == <<facade, updated>>
fileVars == <<files, sent>>
titleVars == <<served, rebuilt>>
diskVars == <<disk, mem, wr, done>>
licenseVars == <<lreq, lres>>
cookieVars == <<tmp, loaded>>
profileVars == <<saved, found>>

---------------------------------------------------------------------------
(* Bounds of the model *)

MaxTicks == 2
MaxStores == 1
MaxCalls == 1

(* Program constants *)

CACHE_EXPIRY == 86400
SESSION_EXPIRY_TIME == 86400
max_retries == 3
retry_delays == <<2, 4, 8>>

None == <<>>

\* The jumps the clock takes between two steps of the program: one second,
\* one second short of the expiry time, and the expiry time.
TickSteps == {1, CACHE_EXPIRY - 1, CACHE_EXPIRY}

---------------------------------------------------------------------------
(* Generic helpers on dicts *)

DictSet(d, k, v) == [x \in (DOMAIN d) \cup {k} |-> IF x = k THEN v ELSE d[x]]

DictPop(d, k) == [x \in (DOMAIN d) \ {k} |-> d[x]]


---------------------------------------------------------------------------
(* Local Session Cache: src/unshackle/core/local_session_cache.py *)

Remotes == {"https://r1", "https://r2"}
Tags == {"SVC", "ALT"}
Profiles == {"default"}

HasEntry(s, r, t, p) == r \in DOMAIN s /\ t \in DOMAIN s[r] /\ p \in DOMAIN s[r][t]

\* _save_sessions: the whole in-memory map is written to the file.
SaveSessions(s) == s

\* store_session: create the nested levels, put the entry, save.
StoreSession(s, r, t, p, session_data, time) ==
    LET s1 == IF r \in DOMAIN s THEN s ELSE DictSet(s, r, None)
        s2 == IF t \in DOMAIN s1[r] THEN s1 ELSE DictSet(s1, r, DictSet(s1[r], t, None))
        entry == [session_data |-> session_data, cached_at |-> time,
                  service_tag |-> t, profile |-> p]
    IN  DictSet(s2, r, DictSet(s2[r], t, DictSet(s2[r][t], p, entry)))

\* A delete that leaves the emptied levels in the map: not the code's, C39
\* tells them apart.
DeleteLeavingLevels(s, r, t, p) ==
    IF ~HasEntry(s, r, t, p)
    THEN [sessions |-> s, deleted |-> FALSE]
    ELSE [sessions |-> DictSet(s, r, DictSet(s[r], t, DictPop(s[r][t], p))), deleted |-> TRUE]

\* delete_session: remove the entry and the levels it leaves empty;
\* KeyError (no such entry) returns False and changes nothing.
DeleteSession(s, r, t, p) ==
    IF ~HasEntry(s, r, t, p)
    THEN [sessions |-> s, deleted |-> FALSE]
    ELSE LET profs == DictPop(s[r][t], p)
             tags == IF profs = None THEN DictPop(s[r], t) ELSE DictSet(s[r], t, profs)
             s1 == IF tags = None THEN DictPop(s, r) ELSE DictSet(s, r, tags)
         IN  [sessions |-> s1, deleted |-> TRUE]

\* An expiry test that already expires an entry of age CACHE_EXPIRY: not the
\* code's, C6 tells them apart.
EntryExpiredAtLimit(entry, time) == time - entry.cached_at >= CACHE_EXPIRY

\* The expiry test of get_session (line 117).
EntryExpired(entry, time) == time - entry.cached_at > CACHE_EXPIRY

\* get_session: the entry's session_data, or None when there is no entry or
\* when it is expired (it is then deleted).
GetSession(s, r, t, p, time) ==
    IF ~HasEntry(s, r, t, p)
    THEN [sessions |-> s, value |-> None, saved |-> FALSE]
    ELSE IF EntryExpired(s[r][t][p], time)
         THEN [sessions |-> DeleteSession(s, r, t, p).sessions, value |-> None, saved |-> TRUE]
         ELSE [sessions |-> s, value |-> s[r][t][p].session_data, saved |-> FALSE]

\* has_session: get_session(...) is not None.
HasSession(s, r, t, p, time) ==
    LET g == GetSession(s, r, t, p, time)
    IN  [sessions |-> g.sessions, value |-> g.value # None, saved |-> g.saved]

\* list_sessions: the metadata of every entry (of one remote, or of all
\* when remote_url is None, written "" here).
ListSessions(s, remote_url, time) ==
    LET remotes == IF remote_url # "" THEN {remote_url} \cap DOMAIN s ELSE DOMAIN s
    IN  { [remote_url |-> r, service_tag |-> t, profile |-> p,
           cached_at |-> s[r][t][p].cached_at,
           age_seconds |-> time - s[r][t][p].cached_at,
           expired |-> time - s[r][t][p].cached_at > CACHE_EXPIRY] :
          <<r, t, p>> \in { k \in Remotes \X Tags \X Profiles : HasEntry(s, k[1], k[2], k[3]) /\ k[1] \in remotes } }

\* A cleanup test that already drops an entry of age CACHE_EXPIRY: not the
\* code's, C7 tells them apart.
CleanupExpiresAtLimit(entry, time) == time - entry.cached_at >= CACHE_EXPIRY

\* The expiry test of cleanup_expired (line 233).
CleanupExpires(entry, time) == time - entry.cached_at > CACHE_EXPIRY

\* cleanup_expired: drop every expired entry, then every empty level; the
\* file is rewritten only when something was removed.
CleanupExpired(s, time) ==
    LET keep(r, t) == { p \in DOMAIN s[r][t] : ~CleanupExpires(s[r][t][p], time) }
        tagsof(r) == { t \in DOMAIN s[r] : keep(r, t) # {} }
        s1 == [r \in { q \in DOMAIN s : tagsof(q) # {} } |->
                 [t \in tagsof(r) |-> [p \in keep(r, t) |-> s[r][t][p]]]]
        removed == Cardinality({ k \in Remotes \X Tags \X Profiles :
                                   /\ HasEntry(s, k[1], k[2], k[3])
                                   /\ CleanupExpires(s[k[1]][k[2]][k[3]], time) })
    IN  [sessions |-> s1, removed |-> removed]

---------------------------------------------------------------------------
(* Session serializer: src/unshackle/core/api/session_serializer.py        *)
(*                                                                         *)
(* A requests.Session is [cookies, headers, proxies]: cookies is the jar   *)
(* in iteration order (a sequence of cookies), headers a dict from header  *)
(* name to value, proxies a dict from URL scheme to proxy URI.  Cookie     *)
(* values and header values are opaque tokens (numbers).                   *)

HeaderNames ==
    {"Authorization", "authorization", "User-Agent",
     "Proxy-Authorization", "proxy-authorization", "PROXY-AUTHORIZATION"}

\* A lower() that leaves the letters as they are: not the code's, C11 tells
\* them apart.
LowerKeepsCase(name) == name

\* str.lower() on the header names of the model.
Lower(name) ==
    CASE name = "Authorization" -> "authorization"
      [] name = "User-Agent" -> "user-agent"
      [] name = "Proxy-Authorization" -> "proxy-authorization"
      [] name = "PROXY-AUTHORIZATION" -> "proxy-authorization"
      [] OTHER -> name

RECURSIVE SerializeJar(_)
\* The loop of lines 32-39: one dict entry per cookie name, a later cookie
\* of the same name overwriting an earlier one.
SerializeJar(jar) ==
    IF jar = <<>> THEN None
    ELSE LET c == jar[Len(jar)]
         IN  DictSet(SerializeJar(SubSeq(jar, 1, Len(jar) - 1)), c.name,
                     [value |-> c.value, domain |-> c.domain, path |-> c.path,
                      secure |-> c.secure, expires |-> c.expires])

\* The header filter of lines 43-46.
SerializeHeaders(headers) ==
    [k \in { h \in DOMAIN headers : Lower(h) \notin {"proxy-authorization"} } |-> headers[k]]

\* The "proxies" entry of the record (line 27).
SerializeProxies(session) == IF session.proxies # None THEN session.proxies ELSE None

\* serialize_session
SerializeSession(session) ==
    [cookies |-> SerializeJar(session.cookies),
     headers |-> SerializeHeaders(session.headers),
     proxies |-> SerializeProxies(session)]


RECURSIVE JarSet(_, _)
\* RequestsCookieJar.set: a cookie replaces the cookie of the same domain,
\* path and name, or is added to the jar.
JarSet(jar, c) ==
    IF jar = <<>> THEN <<c>>
    ELSE IF jar[1].name = c.name /\ jar[1].domain = c.domain /\ jar[1].path = c.path
         THEN <<c>> \o Tail(jar)
         ELSE <<jar[1]>> \o JarSet(Tail(jar), c)

RECURSIVE DeserializeJar(_, _)
\* The loop of lines 72-80 over the record's cookies dict.
DeserializeJar(cookies, jar) ==
    IF cookies = None THEN jar
    ELSE LET name == CHOOSE n \in DOMAIN cookies : TRUE
             cd == cookies[name]
         IN  DeserializeJar(DictPop(cookies, name),
                            JarSet(jar, [name |-> name, value |-> cd.value, domain |-> cd.domain,
                                         path |-> cd.path, secure |-> cd.secure,
                                         expires |-> cd.expires]))

\* CaseInsensitiveDict.update (line 84): a key of the record replaces the
\* target's key of the same lower-case name, in the record's spelling.
HeadersUpdate(headers, new) ==
    LET kept == { h \in DOMAIN headers : \A k \in DOMAIN new : Lower(k) # Lower(h) }
    IN  [k \in kept \cup DOMAIN new |-> IF k \in DOMAIN new THEN new[k] ELSE headers[k]]

\* deserialize_session: cookies are set on the target's jar, headers
\* overwrite the target's headers, the target's proxies are left alone.
DeserializeSession(session_data, target) ==
    [cookies |-> IF "cookies" \in DOMAIN session_data
                 THEN DeserializeJar(session_data.cookies, target.cookies)
                 ELSE target.cookies,
     headers |-> IF "headers" \in DOMAIN session_data
                 THEN HeadersUpdate(target.headers, session_data.headers)
                 ELSE target.headers,
     proxies |-> target.proxies]

\* requests.Session(): no cookies, no proxies (default headers are left out).
FreshSession == [cookies |-> <<>>, headers |-> None, proxies |-> None]

---------------------------------------------------------------------------
(* Remote Auth Orchestrator: src/unshackle/core/remote_auth.py *)

\* The adapter's session after a successful adapter.authenticate at time t:
\* the origin hands out a login cookie; its value, an opaque token, is
\* modelled by the time of the login, so that the age of a login shows.
AdapterLogin(t) ==
    [cookies |-> <<[name |-> "sid", value |-> t, domain |-> "origin", path |-> "/",
                    secure |-> TRUE, expires |-> 0]>>,
     headers |-> None,
     proxies |-> None]

\* The adapter's session after an adapter.authenticate that returned without
\* putting a cookie or an Authorization header on it: a service that needs
\* no login, or one that keeps its token outside the session.
AdapterNoLogin == [cookies |-> <<>>, headers |-> None, proxies |-> None]

\* The sessions service_instance.authenticate may leave at time t.
AdapterSessions(t) == {AdapterLogin(t), AdapterNoLogin}

\* The time of the login a record came from.
LoginTime(session_data) == session_data.cookies["sid"].value

\* authenticate_service_locally, lines 134-145: the serialized session plus
\* service_tag, profile and authenticated.
AuthenticateServiceLocally(service_tag, profile, adapter_session) ==
    LET sd == SerializeSession(adapter_session)
    IN  [cookies |-> sd.cookies, headers |-> sd.headers, proxies |-> sd.proxies,
         service_tag |-> service_tag, profile |-> profile, authenticated |-> TRUE]

---------------------------------------------------------------------------
(* Remote handlers: src/unshackle/core/api/remote_handlers.py              *)
(*                                                                         *)
(* A request is [endpoint, api_key, service_ok, body, env].  api_key is    *)
(* the tier of the X-API-Key ("none" when the header is missing),          *)
(* service_ok says whether validate_service accepts the path's tag.  The   *)
(* body holds, for each field the handlers read, its truthiness or value:  *)
(*   ident        the endpoint's required identifier fields are all there  *)
(*   has_proxy    the body has a "proxy" key                               *)
(*   proxy        its value, a string (<<>> when absent or empty)          *)
(*   no_proxy, cookies, credential, license_url   truthiness of the field  *)
(*   pre          the pre_authenticated_session record, or None            *)
(*   bad_wanted   the body has a wanted value that parse_tokens rejects    *)
(* env is what the handler finds on the server while it runs:              *)
(*   server_auth  dl.get_cookie_jar / dl.get_credentials find something    *)
(*   auth_raises  adapter.authenticate raises                              *)
(*   op_raises    the adapter operation raises (for tracks: get_titles,    *)
(*                the first one the handler calls)                         *)
(*   cdm          "ok", or why the server CDM is refused (decrypt only)    *)

Endpoints == {"search", "titles", "tracks", "chapters", "license", "decrypt"}

IsPrefix(pre, str) == Len(pre) <= Len(str) /\ SubSeq(str, 1, Len(pre)) = pre

\* re.match(r"^https?://", proxy)
MatchesHttpScheme(proxy) ==
    \/ IsPrefix(<<"h", "t", "t", "p", ":", "/", "/">>, proxy)
    \/ IsPrefix(<<"h", "t", "t", "p", "s", ":", "/", "/">>, proxy)

\* A proxy check that does not look at no_proxy: not the code's, C9 tells
\* them apart.
ProxyRejectedDespiteNoProxy(body) == body.proxy # <<>> /\ ~MatchesHttpScheme(body.proxy)

\* The proxy check of every handler (titles: lines 513-531): TRUE when the
\* request is answered 400 INVALID_PROXY.
ProxyRejected(body) ==
    LET proxy_param == body.proxy
        no_proxy == body.no_proxy
    IN  proxy_param # <<>> /\ ~no_proxy /\ ~MatchesHttpScheme(proxy_param)

\* validate_session_expiry: "SESSION_EXPIRED" or "" (None).
ValidateSessionExpiry(session_data, time) ==
    IF session_data = None THEN ""
    ELSE IF "cached_at" \notin DOMAIN session_data \/ session_data.cached_at = 0 THEN ""
    ELSE IF time - session_data.cached_at > SESSION_EXPIRY_TIME THEN "SESSION_EXPIRED"
    ELSE ""

\* A get_auth_from_request that skips the client's record and goes on to
\* the cookies and credentials: not the code's, C15 tells them apart.
GetAuthSkippingRecord(body, time, env) ==
    [cookies |-> body.cookies \/ env.server_auth,
     credential |-> body.credential \/ env.server_auth,
     pre |-> None, session_error |-> ""]

\* get_auth_from_request: (cookies, credential, pre_authenticated_session,
\* session_error), cookies and credential by their truthiness.
GetAuthFromRequest(body, time, env) ==
    IF body.pre # None
    THEN LET session_error == ValidateSessionExpiry(body.pre, time)
         IN  IF session_error # ""
             THEN [cookies |-> FALSE, credential |-> FALSE, pre |-> None,
                   session_error |-> session_error]
             ELSE [cookies |-> FALSE, credential |-> FALSE, pre |-> body.pre,
                   session_error |-> ""]
    ELSE [cookies |-> body.cookies \/ env.server_auth,
          credential |-> body.credential \/ env.server_auth,
          pre |-> None, session_error |-> ""]

\* The JSON body of a response: the names of its fields, and which of them
\* hold text taken from a caught exception (str(e)).
Body(keys, exc) == [keys |-> keys, exc |-> exc]

\* The fields of an error body {"status": "error", "error_code"?, "message"}.
ErrorKeys(error_code) ==
    {"status", "message"} \cup (IF error_code # "" THEN {"error_code"} ELSE {})

\* web.json_response of an error body; did lists what the handler did with
\* the adapter before it answered.
ErrorResponse(status, error_code, did) ==
    [status |-> status, error_code |-> error_code, session |-> None, did |-> did,
     body |-> Body(ErrorKeys(error_code), {})]

\* The answer to a failed adapter.authenticate: 401 AUTH_REQUIRED; the
\* decrypt handler adds "details": str(auth_error) (line 1779).
AuthFailedResponse(req, did) ==
    IF req.endpoint = "decrypt"
    THEN [status |-> 401, error_code |-> "AUTH_REQUIRED", session |-> None, did |-> did,
          body |-> Body(ErrorKeys("AUTH_REQUIRED") \cup {"details"}, {"details"})]
    ELSE ErrorResponse(401, "AUTH_REQUIRED", did)

\* The answer of remote_get_tracks to a wanted value that
\* SeasonRange.parse_tokens rejects (lines 850-856): 400, the message made
\* of the exception's text.
InvalidWantedResponse(did) ==
    [status |-> 400, error_code |-> "", session |-> None, did |-> did,
     body |-> Body(ErrorKeys(""), {"message"})]

\* Steps 6-8 of a handler (titles: lines 577-633), after the adapter was built.
AuthenticateAndRun(req, time) ==
    LET auth == GetAuthFromRequest(req.body, time, req.env)
        run(adapter_session, did) ==
            IF req.env.op_raises
            THEN ErrorResponse(500, "", did \o <<"operation">>)
            ELSE IF req.endpoint = "tracks" /\ req.body.bad_wanted
            THEN InvalidWantedResponse(did \o <<"operation">>)
            ELSE [status |-> 200, error_code |-> "",
                  session |-> SerializeSession(adapter_session),
                  did |-> did \o <<"operation">>,
                  body |-> Body({"status", "data", "session"}, {})]
    IN  IF auth.session_error = "SESSION_EXPIRED"
        THEN ErrorResponse(401, "SESSION_EXPIRED", <<"construct">>)
        ELSE IF auth.pre # None
        THEN run(DeserializeSession(auth.pre, FreshSession), <<"construct", "deserialize">>)
        ELSE IF ~auth.cookies /\ ~auth.credential
        THEN ErrorResponse(401, "AUTH_REQUIRED", <<"construct">>)
        ELSE IF req.env.auth_raises
        THEN AuthFailedResponse(req, <<"construct", "authenticate">>)
        ELSE run(AdapterLogin(time), <<"construct", "authenticate">>)

\* ctx.params of the click context the adapter is built with (titles: line 535).
ContextParams(body) == [proxy |-> body.proxy, no_proxy |-> body.no_proxy]

\* A handler that builds the adapter before it checks the proxy: not the
\* code's, C40 tells them apart.
ServiceHandlerBuildingFirst(req, time) ==
    IF ~req.body.ident THEN ErrorResponse(400, "", <<>>)
    ELSE IF ~req.service_ok THEN ErrorResponse(400, "", <<>>)
    ELSE IF ProxyRejected(req.body) THEN ErrorResponse(400, "INVALID_PROXY", <<"construct">>)
    ELSE AuthenticateAndRun(req, time)

\* remote_search, remote_get_titles, remote_get_tracks, remote_get_chapters
\* and remote_get_license: required fields, service, proxy, then the adapter.
ServiceHandler(req, time) ==
    IF ~req.body.ident THEN ErrorResponse(400, "", <<>>)
    ELSE IF ~req.service_ok THEN ErrorResponse(400, "", <<>>)
    ELSE IF ProxyRejected(req.body) THEN ErrorResponse(400, "INVALID_PROXY", <<>>)
    ELSE AuthenticateAndRun(req, time)

\* remote_decrypt: API key tier, required fields, CDM, service; a body with
\* a license_url is answered 400 ("not yet supported", lines 1868-1875)
\* without the proxy check, which sits in the other branch (line 1673).
DecryptHandler(req, time) ==
    IF req.api_key = "none" THEN ErrorResponse(401, "NO_API_KEY", <<>>)
    ELSE IF req.api_key # "premium" THEN ErrorResponse(403, "PREMIUM_REQUIRED", <<>>)
    ELSE IF ~req.body.ident THEN ErrorResponse(400, "", <<>>)
    ELSE IF req.env.cdm = "no_default" THEN ErrorResponse(400, "", <<>>)
    ELSE IF req.env.cdm = "not_allowed" THEN ErrorResponse(403, "CDM_NOT_ALLOWED", <<>>)
    ELSE IF ~req.service_ok THEN ErrorResponse(400, "", <<>>)
    ELSE IF req.env.cdm = "no_device" THEN ErrorResponse(404, "", <<>>)
    ELSE IF req.body.license_url THEN ErrorResponse(400, "", <<>>)
    ELSE IF ProxyRejected(req.body) THEN ErrorResponse(400, "INVALID_PROXY", <<>>)
    ELSE AuthenticateAndRun(req, time)

\* The handler routed to by the path /api/remote/<tag>/<endpoint>.
RemoteHandler(req, time) ==
    IF req.endpoint = "decrypt" THEN DecryptHandler(req, time) ELSE ServiceHandler(req, time)

---------------------------------------------------------------------------
(* Remote Service Proxy: src/unshackle/core/remote_service.py *)

\* The proxy under study: RemoteService(remote_url, api_key, service_tag) with
\* ctx.obj.profile unset, hence "default" (lines 87-89).
REMOTE_URL == "https://r1"
SERVICE_TAG == "SVC"
PROFILE == "default"

\* Proxy values: a resolved URI and a provider token.
ProxyUri == <<"h", "t", "t", "p", ":", "/", "/", "u", ":", "p", "@", "h", ":", "1">>
ProxyToken == <<"n", "o", "r", "d", "v", "p", "n", ":", "c", "a">>

\* _resolve_proxy_locally: a full URI as it is; otherwise what the local
\* providers resolve the token to, or the token itself when there are no
\* providers or the resolution raises (provided = <<>>).
ResolveProxyLocally(proxy, provided) ==
    IF proxy = <<>> THEN <<>>
    ELSE IF MatchesHttpScheme(proxy) THEN proxy
    ELSE IF provided # <<>> THEN provided
    ELSE proxy

\* _add_proxy_to_request with ctx.params = params.
AddProxyToRequest(body, params, provided) ==
    IF params.no_proxy THEN [body EXCEPT !.no_proxy = TRUE]
    ELSE IF params.proxy # <<>>
    THEN LET resolved_proxy == ResolveProxyLocally(params.proxy, provided)
         IN  IF resolved_proxy # <<>>
             THEN [body EXCEPT !.has_proxy = TRUE, !.proxy = resolved_proxy]
             ELSE body
    ELSE body

\* The body a caller hands to _make_request before the proxy is added:
\* the identifier fields only (search: line 358, get_titles: line 390).
CallerBody ==
    [ident |-> TRUE, has_proxy |-> FALSE, proxy |-> <<>>, no_proxy |-> FALSE,
     cookies |-> FALSE, credential |-> FALSE, license_url |-> FALSE, pre |-> None,
     bad_wanted |-> FALSE]

\* Response.raise_for_status(): HTTPError, a RequestException, for 4xx and 5xx.
RaisesForStatus(status) == status >= 400 /\ status < 600

\* One entry of the call's event log: what happened, a code (error code or
\* kind) and a number (HTTP status, delay or retry_count).
Event(ev, code, n) == [ev |-> ev, code |-> code, n |-> n]

NoStats == [posts |-> 0, answers |-> 0, auths |-> 0, replays |-> 0, sleeps |-> <<>>]

NoResult == [kind |-> "none", status |-> 0, error_code |-> ""]

\* The endpoints the proxy calls (search, get_titles, get_tracks, get_chapters).
ClientEndpoints == {"titles"}

\* What authenticate() left in the proxy: cookies_content and credential.
ClientConfigs ==
    {[cookies_content |-> FALSE, credential |-> FALSE],
     [cookies_content |-> TRUE, credential |-> TRUE]}

\* ctx.params of the command line: --no-proxy and --proxy.
ClientParams ==
    {[no_proxy |-> FALSE, proxy |-> <<>>],
     [no_proxy |-> FALSE, proxy |-> ProxyToken],
     [no_proxy |-> TRUE, proxy |-> ProxyToken]}

\* What the server finds while it handles a request of the proxy.
ServerEnvs == [server_auth : BOOLEAN, auth_raises : BOOLEAN, op_raises : BOOLEAN, cdm : {"ok"}]

\* A response as the proxy holds it: the handler's answer plus who sent it.
SentBy(server, answer) == [status |-> answer.status, error_code |-> answer.error_code,
                           session |-> answer.session, did |-> answer.did, from |-> server]

NoResponse == SentBy("none", [status |-> 0, error_code |-> "", session |-> None, did |-> <<>>])

---------------------------------------------------------------------------
(* The actions of the proxy, split at the points where _make_request blocks *)
(* (the POST, the interactive authentication, the backoff sleep).           *)

otherVars == <<hbody, hresp, sess, rec, tgt, out, ret, titles, treq, tresp,
               servicesVars, retryVars, configVars, fileVars, titleVars,
               disk, mem, wr, done, lreq, lres, tmp, loaded, saved, found>>

\* A caller (search, get_titles, get_tracks, get_chapters) builds the body,
\* adds the proxy and calls _make_request(endpoint, data) with retry_count 0.
StartCall ==
    /\ pc = "idle"
    /\ calls < MaxCalls
    /\ \E ep \in ClientEndpoints, cfg \in ClientConfigs, params \in ClientParams,
          provided \in {<<>>, ProxyUri} :
          /\ call' = [endpoint |-> ep, cookies_content |-> cfg.cookies_content,
                      credential |-> cfg.credential]
          /\ data' = AddProxyToRequest(CallerBody, params, provided)
    /\ retry_count' = 0
    /\ cached_session' = None
    /\ phase' = "first"
    /\ resp' = NoResponse
    /\ result' = NoResult
    /\ log' = <<>>
    /\ stats' = NoStats
    /\ calls' = calls + 1
    /\ pc' = "enter"
    /\ UNCHANGED <<now, ticks, sessions, file, stores, self_session, otherVars>>

\* _make_request lines 180-207: look the session up in the cache, attach it
\* or the cookies / credential fallbacks, send the POST.
Enter ==
    /\ pc = "enter"
    /\ LET g == GetSession(sessions, REMOTE_URL, SERVICE_TAG, PROFILE, now)
       IN  /\ sessions' = g.sessions
           /\ file' = IF g.saved THEN SaveSessions(g.sessions) ELSE file
           /\ cached_session' = g.value
           /\ data' = IF g.value # None
                      THEN [data EXCEPT !.pre = g.value]
                      ELSE [data EXCEPT !.cookies = @ \/ call.cookies_content,
                                        !.credential = @ \/ call.credential]
           /\ log' = <<Event("enter", IF g.value # None THEN "cached" ELSE "nocache",
                             retry_count),
                       Event("post", "first", retry_count)>>
    /\ stats' = [stats EXCEPT !.posts = @ + 1]
    /\ phase' = "first"
    /\ pc' = "wait"
    /\ UNCHANGED <<now, ticks, stores, retry_count, resp, result, calls, call,
                   self_session, otherVars>>

\* A backoff that keeps the first delay: not the code's, C4 tells them apart.
DelayConstant(count) == retry_delays[1]

\* The delay before retry number retry_count + 1 (line 282).
Delay(count) == retry_delays[count + 1]

\* Whether the except clause retries (line 281).
MayRetry(count) == count < max_retries

\* The except clause, lines 279-289: back off and retry, or give up with
\* ConnectionError.
ExceptClause(events) ==
    /\ log' = log \o events
    /\ IF MayRetry(retry_count)
       THEN /\ pc' = "sleep"
            /\ result' = result
       ELSE /\ pc' = "idle"
            /\ result' = [kind |-> "ConnectionError", status |-> 0, error_code |-> ""]

\* lines 273-277: rehydrate the in-process session, return the result.
ReturnResult(events) ==
    /\ log' = log \o events
    /\ self_session' = IF resp.session # None
                       THEN DeserializeSession(resp.session, self_session)
                       ELSE self_session
    /\ result' = [kind |-> "return", status |-> resp.status, error_code |-> resp.error_code]
    /\ pc' = "idle"

\* The POST raises a requests exception of the transport (connection
\* refused, timeout, ...): the except clause runs.
TransportFailure ==
    /\ pc = "wait"
    /\ ExceptClause(<<Event("except", "transport", retry_count)>>)
    /\ UNCHANGED <<now, ticks, sessions, file, stores, data, retry_count, cached_session,
                   phase, resp, stats, calls, call, self_session, otherVars>>

\* The request reaches the server: the handler of the endpoint answers it.
ServerHandle ==
    /\ pc = "wait"
    /\ \E env \in ServerEnvs :
          LET req == [endpoint |-> call.endpoint, api_key |-> "basic", service_ok |-> TRUE,
                      body |-> data, env |-> env]
              answer == RemoteHandler(req, now)
          IN  resp' = SentBy("handler", answer)
    /\ pc' = "response"
    /\ UNCHANGED <<now, ticks, sessions, file, stores, data, retry_count, cached_session,
                   phase, result, log, stats, calls, call, self_session, otherVars>>

\* remote_url is configured by the user and may name any HTTP server (another
\* build of the server, a gateway in front of it, a test double): the POST of
\* line 207 / 241 / 269 then returns whatever that server answers.
OtherServerAnswer ==
    /\ pc = "wait"
    /\ \E status \in {200, 401}, error_code \in {"", "AUTH_REQUIRED", "SESSION_EXPIRED"} :
          resp' = SentBy("other", [status |-> status, error_code |-> error_code,
                                   session |-> None, did |-> <<>>])
    /\ pc' = "response"
    /\ UNCHANGED <<now, ticks, sessions, file, stores, data, retry_count, cached_session,
                   phase, result, log, stats, calls, call, self_session, otherVars>>

\* lines 211-246 for the first POST: raise_for_status, then the error_code
\* branches up to the local authentication, or the return.
ReceiveFirst ==
    /\ pc = "response"
    /\ phase = "first"
    /\ LET answer == Event("answer", resp.error_code, resp.status)
       IN  IF RaisesForStatus(resp.status)
           THEN /\ ExceptClause(<<answer, Event("except", "http", retry_count)>>)
                /\ UNCHANGED <<sessions, file, self_session>>
           ELSE IF resp.error_code = "SESSION_EXPIRED"
           THEN /\ sessions' = DeleteSession(sessions, REMOTE_URL, SERVICE_TAG, PROFILE).sessions
                /\ file' = IF DeleteSession(sessions, REMOTE_URL, SERVICE_TAG, PROFILE).deleted
                           THEN SaveSessions(sessions') ELSE file
                /\ log' = log \o <<answer, Event("delete", "", 0)>>
                /\ pc' = "auth"
                /\ UNCHANGED <<result, self_session>>
           ELSE IF resp.error_code = "AUTH_REQUIRED" /\ cached_session = None
           THEN /\ log' = Append(log, answer)
                /\ pc' = "auth"
                /\ UNCHANGED <<sessions, file, result, self_session>>
           ELSE /\ ReturnResult(<<answer>>)
                /\ UNCHANGED <<sessions, file>>
    /\ stats' = [stats EXCEPT !.answers = @ + 1]
    /\ UNCHANGED <<now, ticks, stores, data, retry_count, cached_session, phase, resp,
                   calls, call, otherVars>>

\* _authenticate_locally and what follows it (lines 223-241 / 251-269): on
\* success store the record, put it in the body, drop cookies / credential
\* and replay the POST; when the authentication fails (None), return the
\* error result.
AuthenticateLocally ==
    /\ pc = "auth"
    /\ \/ LET session_data == AuthenticateServiceLocally(SERVICE_TAG, PROFILE, AdapterLogin(now))
          IN  /\ sessions' = StoreSession(sessions, REMOTE_URL, SERVICE_TAG, PROFILE,
                                          session_data, now)
              /\ file' = SaveSessions(sessions')
              /\ data' = [data EXCEPT !.pre = session_data, !.cookies = FALSE,
                                      !.credential = FALSE]
              /\ log' = log \o <<Event("auth", "ok", 0), Event("store", "", 0),
                                 Event("post", "replay", retry_count)>>
              /\ stats' = [stats EXCEPT !.auths = @ + 1, !.replays = @ + 1, !.posts = @ + 1]
              /\ phase' = "replay"
              /\ pc' = "wait"
              /\ UNCHANGED <<result, self_session>>
       \/ /\ ReturnResult(<<Event("auth", "failed", 0)>>)
          /\ stats' = [stats EXCEPT !.auths = @ + 1]
          /\ UNCHANGED <<sessions, file, data, phase>>
    /\ UNCHANGED <<now, ticks, stores, retry_count, cached_session, resp, calls, call,
                   otherVars>>

\* lines 242-243 / 270-277 for the replayed POST: raise_for_status, then
\* the return; the error_code of the replay's answer is not looked at.
ReceiveReplay ==
    /\ pc = "response"
    /\ phase = "replay"
    /\ LET answer == Event("answer", resp.error_code, resp.status)
       IN  IF RaisesForStatus(resp.status)
           THEN /\ ExceptClause(<<answer, Event("except", "http", retry_count)>>)
                /\ UNCHANGED self_session
           ELSE ReturnResult(<<answer>>)
    /\ stats' = [stats EXCEPT !.answers = @ + 1]
    /\ UNCHANGED <<now, ticks, sessions, file, stores, data, retry_count, cached_session,
                   phase, resp, calls, call, otherVars>>

\* lines 285-286: time.sleep(delay), then _make_request(endpoint, data,
\* retry_count + 1) with the same data dict.
Sleep ==
    /\ pc = "sleep"
    /\ now' = now + Delay(retry_count)
    /\ log' = Append(log, Event("sleep", "", Delay(retry_count)))
    /\ stats' = [stats EXCEPT !.sleeps = Append(@, Delay(retry_count))]
    /\ retry_count' = retry_count + 1
    /\ resp' = NoResponse
    /\ pc' = "enter"
    /\ UNCHANGED <<ticks, sessions, file, stores, data, cached_session, phase, result,
                   calls, call, self_session, otherVars>>

\* `unshackle remote-auth authenticate SVC` for the proxy's remote between
\* two calls: authenticate_and_save = authenticate_service_locally, then
\* save_session_locally under (remote_url, service_tag, profile) of the record.
AuthenticateAndSave ==
    /\ pc = "idle"
    /\ stores < MaxStores
    /\ LET session_data == AuthenticateServiceLocally(SERVICE_TAG, PROFILE, AdapterLogin(now))
       IN  sessions' = StoreSession(sessions, REMOTE_URL, session_data.service_tag,
                                    session_data.profile, session_data, now)
    /\ file' = SaveSessions(sessions')
    /\ stores' = stores + 1
    /\ UNCHANGED <<now, ticks, clientVars, otherVars>>

\* The clock moves on.  Only get_session, the handler and the two
\* authentications read the clock, so the jumps are taken where they are
\* next to read it: between calls and while a POST is under way.
Tick ==
    /\ pc \in {"idle", "wait"}
    /\ ticks < MaxTicks
    /\ \E d \in TickSteps : now' = now + d
    /\ ticks' = ticks + 1
    /\ UNCHANGED <<cacheVars, clientVars, handlerVars, tracksVars, serializeVars,
                   servicesVars, retryVars, configVars, fileVars, titleVars,
                   diskVars, licenseVars, cookieVars, profileVars>>

\* The state after construction: an empty cache, no call under way.  The
\* clock shows a positive time, as time.time() does.
InitCommon ==
    /\ now = 1
    /\ ticks = 0
    /\ sessions = None
    /\ file = None
    /\ ret = [op |-> "none"]
    /\ stores = 0
    /\ pc = "idle"
    /\ data = CallerBody
    /\ retry_count = 0
    /\ cached_session = None
    /\ phase = "first"
    /\ resp = NoResponse
    /\ result = NoResult
    /\ log = <<>>
    /\ stats = NoStats
    /\ calls = 0
    /\ call = [endpoint |-> "titles", cookies_content |-> FALSE, credential |-> FALSE]
    /\ self_session = FreshSession
    /\ hbody = None
    /\ hresp = None
    /\ sess = None
    /\ rec = None
    /\ tgt = None
    /\ out = None
    /\ titles = <<>>
    /\ treq = None
    /\ tresp = None
    /\ remote_configs = None
    /\ advertised = <<>>
    /\ remote_services = <<>>
    /\ lookup = None
    /\ rcall = None
    /\ attempts = <<>>
    /\ slept = <<>>
    /\ outcome = None
    /\ facade = None
    /\ updated = None
    /\ files = None
    /\ sent = None
    /\ served = None
    /\ rebuilt = None
    /\ disk = [state |-> "absent", doc |-> None]
    /\ mem = [i \in {"A", "B"} |-> [open |-> FALSE, sessions |-> None]]
    /\ wr = None
    /\ done = [n |-> 0, op |-> "none"]
    /\ lreq = None
    /\ lres = None
    /\ tmp = {}
    /\ loaded = None
    /\ saved = [sessions |-> None, given |-> {}]
    /\ found = None

Init == InitCommon

Next ==
    \/ StartCall
    \/ Enter
    \/ TransportFailure
    \/ ServerHandle
    \/ OtherServerAnswer
    \/ ReceiveFirst
    \/ AuthenticateLocally
    \/ ReceiveReplay
    \/ Sleep
    \/ AuthenticateAndSave
    \/ Tick

\* The proxy, its cache and clock, against the remote handlers of this
\* repository or any other server at remote_url.
Spec == Init /\ [][Next]_vars

---------------------------------------------------------------------------
(* Properties of _make_request *)

\* The running top-level call has ended (returned or raised).
CallEnded == pc = "idle" /\ stats.posts > 0

\* Position i of the log is the server's answer to the first POST of the attempt.
FirstAnswerAt(i) ==
    /\ i > 1
    /\ log[i].ev = "answer"
    /\ log[i - 1].ev = "post"
    /\ log[i - 1].code = "first"

\* C1: with no cached session for the key, a 401 AUTH_REQUIRED answer is
\* followed by the local authentication, the store of the record and the
\* replay carrying it; a call that returns after a successful replay returns
\* the success result and leaves the key's entry in the cache.
C1_AuthRequiredEscalates ==
    /\ \A i \in 1..Len(log) :
          ( /\ FirstAnswerAt(i)
            /\ log[i].n = 401
            /\ log[i].code = "AUTH_REQUIRED"
            /\ log[1].code = "nocache" )
          => /\ Len(log) >= i + 3
             /\ log[i + 1].ev = "auth"
             /\ log[i + 1].code = "ok" => ( /\ log[i + 2].ev = "store"
                                            /\ log[i + 3] = Event("post", "replay", retry_count)
                                            /\ data.pre # None )
    /\ ( /\ CallEnded
         /\ result.kind = "return"
         /\ stats.replays = 1
         /\ resp.status = 200 )
       => /\ result.status = 200
          /\ HasEntry(sessions, REMOTE_URL, SERVICE_TAG, PROFILE)

\* C2: a SESSION_EXPIRED answer (HTTP 401) is followed, in this order, by the
\* delete of the cached record, the local authentication, the store of the
\* fresh record and one replay, whose body carries the fresh record and no
\* cookies and no credential.
C2_SessionExpiredReauth ==
    \A i \in 1..Len(log) :
        ( /\ FirstAnswerAt(i)
          /\ log[i].n = 401
          /\ log[i].code = "SESSION_EXPIRED" )
        => /\ Len(log) >= i + 2
           /\ log[i + 1].ev = "delete"
           /\ log[i + 2].ev = "auth"
           /\ log[i + 2].code = "ok" =>
                ( /\ Len(log) >= i + 4
                  /\ log[i + 3].ev = "store"
                  /\ log[i + 4] = Event("post", "replay", retry_count)
                  /\ stats.replays = 1
                  /\ data.pre # None
                  /\ ~data.cookies
                  /\ ~data.credential )

\* C3: an answer with HTTP status 401 is never handled by the except clause
\* (backoff and re-send, ConnectionError in the end).
C3_UnauthorizedIsNoTransportRetry ==
    \A i \in 1..Len(log) :
        (log[i].ev = "answer" /\ log[i].n = 401 /\ i < Len(log)) => log[i + 1].ev # "except"

\* C4: as long as every POST of the call has failed in the transport, there
\* were at most 4 POSTs, the sleeps were 2, 4, 8 in this order, one before
\* each further POST, and nothing was returned; when the call has ended it
\* raised ConnectionError after exactly 4 POSTs and the three sleeps.
C4_TransportRetries ==
    stats.answers = 0 =>
        /\ stats.posts <= 4
        /\ stats.sleeps \in {<<>>, <<2>>, <<2, 4>>, <<2, 4, 8>>}
        /\ pc \in {"wait", "sleep"} => stats.posts = Len(stats.sleeps) + 1
        /\ result.kind # "return"
        /\ CallEnded => /\ result.kind = "ConnectionError"
                        /\ stats.posts = 4
                        /\ stats.sleeps = <<2, 4, 8>>

C4_Witness ==
    /\ CallEnded
    /\ stats.answers = 0
    /\ stats.posts = 4
    /\ result.kind = "ConnectionError"

C8_OldRecordRejected ==
    ( /\ pc = "response"
      /\ resp.from = "handler"
      /\ resp.did # <<>>
      /\ data.pre # None )
    => IF now - LoginTime(data.pre) > 86400
       THEN /\ resp.status = 401
            /\ resp.error_code = "SESSION_EXPIRED"
            /\ \A j \in 1..Len(resp.did) : resp.did[j] # "deserialize"
       ELSE \E j \in 1..Len(resp.did) : resp.did[j] = "deserialize"

---------------------------------------------------------------------------
(* The Local Session Cache on its own: any caller, any key *)

MaxCacheStores == 2

CacheKeys == Remotes \X Tags \X Profiles

\* The entry of key k in the map s.
EntryOf(s, k) == s[k[1]][k[2]][k[3]]

\* What a cache call leaves in ret.
Ret(op, k, before, time, value) ==
    [op |-> op, key |-> k, before |-> before, at |-> time, value |-> value]

\* store_session(remote_url, service_tag, profile, session_data) with the
\* record of a local authentication made now.
CacheStore ==
    /\ stores < MaxCacheStores
    /\ \E k \in CacheKeys, s \in AdapterSessions(now) :
          LET session_data == AuthenticateServiceLocally(k[2], k[3], s)
          IN  /\ sessions' = StoreSession(sessions, k[1], k[2], k[3], session_data, now)
              /\ ret' = Ret("store", k, sessions, now, None)
    /\ file' = SaveSessions(sessions')
    /\ stores' = stores + 1
    /\ UNCHANGED <<now, ticks, clientVars, handlerVars, tracksVars, serializeVars,
                   servicesVars, retryVars, configVars, fileVars, titleVars,
                   diskVars, licenseVars, cookieVars, profileVars>>

\* get_session(remote_url, service_tag, profile)
CacheGet ==
    /\ \E k \in CacheKeys :
          LET g == GetSession(sessions, k[1], k[2], k[3], now)
          IN  /\ sessions' = g.sessions
              /\ file' = IF g.saved THEN SaveSessions(g.sessions) ELSE file
              /\ ret' = Ret("get", k, sessions, now, g.value)
    /\ UNCHANGED <<now, ticks, stores, clientVars, handlerVars, tracksVars, serializeVars,
                   servicesVars, retryVars, configVars, fileVars, titleVars,
                   diskVars, licenseVars, cookieVars, profileVars>>

\* has_session(remote_url, service_tag, profile)
CacheHas ==
    /\ \E k \in CacheKeys :
          LET h == HasSession(sessions, k[1], k[2], k[3], now)
          IN  /\ sessions' = h.sessions
              /\ file' = IF h.saved THEN SaveSessions(h.sessions) ELSE file
              /\ ret' = Ret("has", k, sessions, now, h.value)
    /\ UNCHANGED <<now, ticks, stores, clientVars, handlerVars, tracksVars, serializeVars,
                   servicesVars, retryVars, configVars, fileVars, titleVars,
                   diskVars, licenseVars, cookieVars, profileVars>>

\* delete_session(remote_url, service_tag, profile)
CacheDelete ==
    /\ \E k \in CacheKeys :
          LET d == DeleteSession(sessions, k[1], k[2], k[3])
          IN  /\ sessions' = d.sessions
              /\ file' = IF d.deleted THEN SaveSessions(d.sessions) ELSE file
              /\ ret' = Ret("delete", k, sessions, now, d.deleted)
    /\ UNCHANGED <<now, ticks, stores, clientVars, handlerVars, tracksVars, serializeVars,
                   servicesVars, retryVars, configVars, fileVars, titleVars,
                   diskVars, licenseVars, cookieVars, profileVars>>

\* list_sessions(remote_url) and list_sessions()
CacheList ==
    /\ \E r \in Remotes \cup {""} :
          ret' = Ret("list", r, sessions, now, ListSessions(sessions, r, now))
    /\ UNCHANGED <<now, ticks, sessions, file, stores, clientVars, handlerVars, tracksVars, serializeVars,
                   servicesVars, retryVars, configVars, fileVars, titleVars,
                   diskVars, licenseVars, cookieVars, profileVars>>

\* cleanup_expired(), also run by get_local_session_cache when the process
\* builds the cache (line 269).
CacheCleanup ==
    /\ LET c == CleanupExpired(sessions, now)
       IN  /\ sessions' = c.sessions
           /\ file' = IF c.removed > 0 THEN SaveSessions(c.sessions) ELSE file
           /\ ret' = Ret("cleanup", "", sessions, now, c.removed)
    /\ UNCHANGED <<now, ticks, stores, clientVars, handlerVars, tracksVars, serializeVars,
                   servicesVars, retryVars, configVars, fileVars, titleVars,
                   diskVars, licenseVars, cookieVars, profileVars>>

\* A record in the format of the Session Record, which carries the
\* cached_at of its entry.
Stamped(entry) ==
    [cookies |-> entry.session_data.cookies, headers |-> entry.session_data.headers,
     proxies |-> entry.session_data.proxies, service_tag |-> entry.service_tag,
     profile |-> entry.profile, authenticated |-> TRUE, cached_at |-> entry.cached_at]

\* The server's validate_session_expiry applied, now, to the record of a
\* cached entry that carries the entry's cached_at.
ServerValidate ==
    /\ \E k \in CacheKeys :
          /\ HasEntry(sessions, k[1], k[2], k[3])
          /\ ret' = Ret("validate", k, sessions, now,
                        ValidateSessionExpiry(Stamped(EntryOf(sessions, k)), now))
    /\ UNCHANGED <<now, ticks, sessions, file, stores, clientVars, handlerVars, tracksVars, serializeVars,
                   servicesVars, retryVars, configVars, fileVars, titleVars,
                   diskVars, licenseVars, cookieVars, profileVars>>

CacheNext ==
    \/ CacheStore
    \/ CacheGet
    \/ CacheHas
    \/ CacheDelete
    \/ CacheList
    \/ CacheCleanup
    \/ ServerValidate
    \/ Tick

CacheSpec == InitCommon /\ [][CacheNext]_vars

\* The age, at the last cache call, of the entry key k had before the call.
RetAge(k) == ret.at - EntryOf(ret.before, k).cached_at

\* The last call was made on a map that held an entry for k.
RetHad(k) == HasEntry(ret.before, k[1], k[2], k[3])

\* C6: get_session returns the stored session data iff the key has an entry
\* with now - cached_at <= 24h; for an entry older than 24h it returns
\* None and the entry is gone from the map and the file, so that a get or a
\* list made then or later does not see it.
C6_GetSessionValidity ==
    ret.op = "get" =>
        LET k == ret.key
        IN  /\ ret.value # None <=> (RetHad(k) /\ RetAge(k) <= 86400)
            /\ ret.value # None => /\ ret.value = EntryOf(ret.before, k).session_data
                                   /\ sessions = ret.before
            /\ (RetHad(k) /\ RetAge(k) > 86400) =>
                  /\ ~HasEntry(sessions, k[1], k[2], k[3])
                  /\ ~HasEntry(file, k[1], k[2], k[3])
                  /\ \A d \in {0} \cup TickSteps :
                        /\ GetSession(sessions, k[1], k[2], k[3], ret.at + d).value = None
                        /\ \A row \in ListSessions(sessions, "", ret.at + d) :
                              <<row.remote_url, row.service_tag, row.profile>> # k
                  /\ \A j \in CacheKeys \ {k} :
                        /\ HasEntry(sessions, j[1], j[2], j[3]) <=> RetHad(j)
                        /\ RetHad(j) => EntryOf(sessions, j) = EntryOf(ret.before, j)

C6_Witness ==
    /\ ret.op = "get"
    /\ RetHad(ret.key)
    /\ RetAge(ret.key) > 86400
    /\ ret.value = None
    /\ sessions # None

\* The last call judged the entry of key k: get_session and
\* validate_session_expiry judge the key they are given, cleanup_expired
\* every entry.
Judged(k) ==
    /\ ret.op \in {"get", "validate", "cleanup"}
    /\ RetHad(k)
    /\ ret.op # "cleanup" => ret.key = k

\* The last call treated the entry of key k as expired.
JudgedExpired(k) ==
    IF ret.op = "get" THEN ret.value = None
    ELSE IF ret.op = "validate" THEN ret.value = "SESSION_EXPIRED"
    ELSE ~HasEntry(sessions, k[1], k[2], k[3])

\* C7 as the spec states it: at 24h - 1s a record is valid, at exactly 24h
\* it is expired, for get_session, cleanup_expired and validate_session_expiry.
C7_ExpiredAtLimit ==
    \A k \in CacheKeys :
        Judged(k) => /\ RetAge(k) = 86400 - 1 => ~JudgedExpired(k)
                     /\ RetAge(k) = 86400 => JudgedExpired(k)

\* C7, as the code has it: at 24h - 1s and at exactly 24h the record is
\* valid, at 24h + 1s it is expired, for get_session, cleanup_expired and
\* validate_session_expiry (on a record that carries cached_at).
C7_ExpiredPastLimit ==
    \A k \in CacheKeys :
        Judged(k) => /\ RetAge(k) = 86400 - 1 => ~JudgedExpired(k)
                     /\ RetAge(k) = 86400 => ~JudgedExpired(k)
                     /\ RetAge(k) = 86400 + 1 => JudgedExpired(k)

C7_Witness ==
    \E k \in CacheKeys :
        /\ Judged(k)
        /\ ret.op = "cleanup"
        /\ RetAge(k) = 86400
        /\ ~JudgedExpired(k)

---------------------------------------------------------------------------
(* The remote handlers on their own: any request *)

\* Proxy values of a body: no "proxy" key, the empty string, two URIs the
\* pattern matches, a provider token, and three near misses (upper case,
\* a leading blank, another scheme).
ProxyValues ==
    {[has |-> FALSE, value |-> <<>>],
     [has |-> TRUE, value |-> <<>>],
     [has |-> TRUE, value |-> ProxyUri],
     [has |-> TRUE, value |-> <<"h", "t", "t", "p", "s", ":", "/", "/", "h">>],
     [has |-> TRUE, value |-> ProxyToken],
     [has |-> TRUE, value |-> <<"H", "T", "T", "P", ":", "/", "/", "h">>],
     [has |-> TRUE, value |-> <<" ", "h", "t", "t", "p", ":", "/", "/", "h">>],
     [has |-> TRUE, value |-> <<"s", "o", "c", "k", "s", "5", ":", "/", "/", "h">>]}

\* A record that carries a cached_at older than SESSION_EXPIRY_TIME.
ExpiredRecord ==
    Stamped([session_data |-> AuthenticateServiceLocally(SERVICE_TAG, PROFILE, AdapterLogin(now)),
             service_tag |-> SERVICE_TAG, profile |-> PROFILE,
             cached_at |-> now - SESSION_EXPIRY_TIME - 1])

\* The records a client attaches: none, the record of a local
\* authentication made now, or a record stamped more than a day ago.
AttachedRecords ==
    {None, ExpiredRecord}
    \cup { AuthenticateServiceLocally(SERVICE_TAG, PROFILE, s) : s \in AdapterSessions(now) }

HandlerEnvs ==
    [server_auth : BOOLEAN, auth_raises : BOOLEAN, op_raises : BOOLEAN,
     cdm : {"ok", "no_default", "not_allowed", "no_device"}]

\* A POST /api/remote/<tag>/<endpoint> arrives.
ReceiveRequest ==
    /\ hbody = None
    /\ \E endpoint \in Endpoints, api_key \in {"none", "basic", "premium"},
          service_ok \in BOOLEAN, ident \in BOOLEAN, proxy \in ProxyValues,
          no_proxy \in BOOLEAN, cookies \in BOOLEAN, credential \in BOOLEAN,
          pre \in AttachedRecords, env \in HandlerEnvs :
        \E bad_wanted \in (IF endpoint = "tracks" THEN BOOLEAN ELSE {FALSE}),
           license_url \in (IF endpoint = "decrypt" THEN BOOLEAN ELSE {FALSE}) :
          hbody' = [endpoint |-> endpoint, api_key |-> api_key, service_ok |-> service_ok,
                    body |-> [ident |-> ident, has_proxy |-> proxy.has, proxy |-> proxy.value,
                              no_proxy |-> no_proxy, cookies |-> cookies,
                              credential |-> credential, license_url |-> license_url,
                              pre |-> pre, bad_wanted |-> bad_wanted],
                    env |-> env]
    /\ hresp' = None
    /\ UNCHANGED <<now, ticks, cacheVars, clientVars, serializeVars, tracksVars,
                   servicesVars, retryVars, configVars, fileVars, titleVars,
                   diskVars, licenseVars, cookieVars, profileVars>>

\* The handler runs and answers.
HandleRequest ==
    /\ hbody # None
    /\ hresp = None
    /\ hresp' = RemoteHandler(hbody, now)
    /\ UNCHANGED <<now, ticks, cacheVars, clientVars, hbody, serializeVars, tracksVars,
                   servicesVars, retryVars, configVars, fileVars, titleVars,
                   diskVars, licenseVars, cookieVars, profileVars>>

\* The response is sent; the handler keeps nothing of the request.
SendResponse ==
    /\ hresp # None
    /\ hbody' = None
    /\ hresp' = None
    /\ UNCHANGED <<now, ticks, cacheVars, clientVars, serializeVars, tracksVars,
                   servicesVars, retryVars, configVars, fileVars, titleVars,
                   diskVars, licenseVars, cookieVars, profileVars>>

HandlerNext ==
    \/ ReceiveRequest
    \/ HandleRequest
    \/ SendResponse

HandlerSpec == InitCommon /\ [][HandlerNext]_vars

\* The handler answered the request with 400 INVALID_PROXY.
AnsweredInvalidProxy == hresp.status = 400 /\ hresp.error_code = "INVALID_PROXY"

\* The request passes every check the handler makes before the proxy check.
PassesEarlierChecks ==
    /\ hbody.body.ident
    /\ hbody.service_ok
    /\ hbody.endpoint = "decrypt" => /\ hbody.api_key = "premium"
                                     /\ hbody.env.cdm = "ok"
                                     /\ ~hbody.body.license_url

---------------------------------------------------------------------------
(* The session serializer on its own: any session *)

MaxJar == 2

SampleCookies ==
    [name : {"sid", "tok"}, value : {1, 2}, domain : {"a.example", "b.example"},
     path : {"/"}, secure : {TRUE}, expires : {0}]

SameCookieKey(c, d) == c.name = d.name /\ c.domain = d.domain /\ c.path = d.path

\* The cookie jars of up to MaxJar cookies; a jar holds one cookie per
\* (domain, path, name).
SampleJars ==
    { jar \in UNION { [1..n -> SampleCookies] : n \in 0..MaxJar } :
        \A i, j \in 1..Len(jar) : i # j => ~SameCookieKey(jar[i], jar[j]) }

\* session.headers is a CaseInsensitiveDict: one key per lower-case name.
SampleHeaders ==
    UNION { [names -> {7}] :
            names \in { ns \in SUBSET HeaderNames :
                          \A a, b \in ns : a # b => Lower(a) # Lower(b) } }

SampleProxies ==
    {None,
     [all |-> ProxyUri],
     [http |-> ProxyUri, https |-> <<"h", "t", "t", "p", "s", ":", "/", "/", "h">>]}

\* Some code holds a requests.Session (the adapter's on the server or in the
\* orchestrator).
TakeSession ==
    /\ sess = None
    /\ \E jar \in SampleJars, headers \in SampleHeaders, proxies \in SampleProxies :
          sess' = [cookies |-> jar, headers |-> headers, proxies |-> proxies]
    /\ rec' = None
    /\ tgt' = None
    /\ out' = None
    /\ UNCHANGED <<now, ticks, cacheVars, clientVars, handlerVars, tracksVars,
                   servicesVars, retryVars, configVars, fileVars, titleVars,
                   diskVars, licenseVars, cookieVars, profileVars>>

\* serialize_session(sess)
Serialize ==
    /\ sess # None
    /\ rec = None
    /\ rec' = SerializeSession(sess)
    /\ UNCHANGED <<now, ticks, cacheVars, clientVars, handlerVars, tracksVars, sess, tgt, out,
                   servicesVars, retryVars, configVars, fileVars, titleVars,
                   diskVars, licenseVars, cookieVars, profileVars>>

\* The sessions a record is deserialized into: a fresh requests.Session (its
\* default headers are left out), or a session already in use, which may
\* hold a cookie and headers of its own.
SampleTargets ==
    [cookies : {<<>>, <<[name |-> "sid", value |-> 9, domain |-> "a.example", path |-> "/",
                         secure |-> FALSE, expires |-> 5]>>},
     headers : {None, [x \in {"Proxy-Authorization"} |-> 9],
                [x \in {"User-Agent"} |-> 9],
                [x \in {"proxy-authorization", "Authorization"} |-> 9]},
     proxies : {None}]

\* deserialize_session(rec, tgt) by the receiver of the record.
Deserialize ==
    /\ rec # None
    /\ tgt = None
    /\ \E target \in SampleTargets :
          /\ tgt' = target
          /\ out' = DeserializeSession(rec, target)
    /\ UNCHANGED <<now, ticks, cacheVars, clientVars, handlerVars, tracksVars, sess, rec,
                   servicesVars, retryVars, configVars, fileVars, titleVars,
                   diskVars, licenseVars, cookieVars, profileVars>>

\* The session and its record go out of scope.
DropSession ==
    /\ rec # None
    /\ sess' = None
    /\ rec' = None
    /\ tgt' = None
    /\ out' = None
    /\ UNCHANGED <<now, ticks, cacheVars, clientVars, handlerVars, tracksVars,
                   servicesVars, retryVars, configVars, fileVars, titleVars,
                   diskVars, licenseVars, cookieVars, profileVars>>

SerializeNext ==
    \/ TakeSession
    \/ Serialize
    \/ Deserialize
    \/ DropSession

SerializeSpec == InitCommon /\ [][SerializeNext]_vars

\* C10: the record made by serialize_session holds no proxy URI of the
\* serialized session (its cookie and header values are opaque tokens, so a
\* URI can only sit in a field that holds strings).
C10_NoProxyExported ==
    (rec # None /\ sess.proxies # None) =>
        \A scheme \in DOMAIN sess.proxies :
            /\ "proxies" \in DOMAIN rec =>
                  \A key \in DOMAIN rec.proxies : rec.proxies[key] # sess.proxies[scheme]
            /\ \A field \in (DOMAIN rec) \ {"cookies", "headers", "proxies"} :
                  rec[field] # sess.proxies[scheme]

\* The spellings of the Proxy-Authorization header among the header names.
ProxyAuthorizationNames == {"Proxy-Authorization", "proxy-authorization", "PROXY-AUTHORIZATION"}

\* The Proxy-Authorization entries of a headers dict.
ProxyAuthorizationOf(headers) ==
    [k \in (DOMAIN headers) \cap ProxyAuthorizationNames |-> headers[k]]

\* The other entries of a headers dict.
OtherHeadersOf(headers) ==
    [k \in (DOMAIN headers) \ ProxyAuthorizationNames |-> headers[k]]

\* The cookies of a jar, as a set.
CookiesOf(jar) == { jar[i] : i \in 1..Len(jar) }

\* C11: when the session holds a Proxy-Authorization header, in any letter
\* case, its record has no header of that name in any letter case, and
\* deserializing the record leaves the target's Proxy-Authorization header
\* as it was (absent stays absent).
C11_ProxyAuthorizationDropped ==
    (rec # None /\ ProxyAuthorizationOf(sess.headers) # None) =>
        /\ ProxyAuthorizationOf(rec.headers) = None
        /\ out # None => ProxyAuthorizationOf(out.headers) = ProxyAuthorizationOf(tgt.headers)

C11_Witness ==
    /\ out # None
    /\ "PROXY-AUTHORIZATION" \in DOMAIN sess.headers
    /\ "Proxy-Authorization" \in DOMAIN tgt.headers
    /\ "Proxy-Authorization" \in DOMAIN out.headers
    /\ "Authorization" \in DOMAIN out.headers

\* C12: after deserialize(serialize(S), T) with a fresh T, the cookies of T
\* (name, value, domain, path, secure, expires) are the cookies of S and
\* T's headers other than Proxy-Authorization are S's.
C12_RoundTrip ==
    (out # None /\ tgt = FreshSession) =>
        /\ CookiesOf(out.cookies) = CookiesOf(sess.cookies)
        /\ OtherHeadersOf(out.headers) = OtherHeadersOf(sess.headers)

---------------------------------------------------------------------------
(* Further properties of the proxy and the handlers *)

\* C13: when a _make_request call has returned a success response that
\* contains a session, the cache entry of the proxy's key holds that
\* returned session.
C13_WriteBack ==
    ( /\ CallEnded
      /\ result.kind = "return"
      /\ result.status = 200
      /\ resp.session # None )
    => /\ HasEntry(sessions, REMOTE_URL, SERVICE_TAG, PROFILE)
       /\ LET held == EntryOf(sessions, <<REMOTE_URL, SERVICE_TAG, PROFILE>>).session_data
          IN  /\ held.cookies = resp.session.cookies
              /\ held.headers = resp.session.headers

\* What the handler did with the adapter includes the step.
Did(response, step) == \E j \in 1..Len(response.did) : response.did[j] = step

\* The handler built the adapter for the request: the request passed the
\* checks of its fields, service, CDM and proxy.
AdapterBuilt == hresp # None /\ hresp.did # <<>>

\* The record carries at least one cookie or an Authorization header.
ValidRecord(record) ==
    \/ record.cookies # None
    \/ \E h \in DOMAIN record.headers : Lower(h) = "authorization"

\* The session_data of the entries of the Local Session Cache.
StoredRecords ==
    { sessions[k[1]][k[2]][k[3]].session_data :
        k \in { q \in Remotes \X Tags \X Profiles : HasEntry(sessions, q[1], q[2], q[3]) } }

\* C17: every record in the Local Session Cache, every record a request of
\* the client carries as pre_authenticated_session, and every record a
\* handler deserialized into its adapter, has at least one cookie or an
\* Authorization header.
C17_RecordsValid ==
    /\ \A record \in StoredRecords : ValidRecord(record)
    /\ data.pre # None => ValidRecord(data.pre)
    /\ (hresp # None /\ Did(hresp, "deserialize")) => ValidRecord(hbody.body.pre)

\* C14: a request whose body carries none of pre_authenticated_session,
\* cookies and credential is answered 401 AUTH_REQUIRED, and
\* adapter.authenticate is not called, whatever the server's own
\* configuration holds.
C14_NoAuthInBody ==
    ( /\ AdapterBuilt
      /\ hbody.body.pre = None
      /\ ~hbody.body.cookies
      /\ ~hbody.body.credential )
    => /\ hresp.status = 401
       /\ hresp.error_code = "AUTH_REQUIRED"
       /\ ~Did(hresp, "authenticate")

\* The request the proxy's POST makes of the body, as the server meets it
\* in the environment env.
ProxyRequest(body, env) ==
    [endpoint |-> call.endpoint, api_key |-> "basic", service_ok |-> TRUE,
     body |-> body, env |-> env]

\* C15: when get_session finds a fresh record for the proxy's key, the
\* first POST carries it as pre_authenticated_session and carries no
\* cookies and no credential; a handler that receives a record of age
\* <= 24h deserializes it, does not call adapter.authenticate, and answers
\* as it would whatever the body's cookies / credential fields were.
C15_CachedRecordOnly ==
    /\ (pc \in {"wait", "response"} /\ phase = "first" /\ cached_session # None) =>
          /\ data.pre = cached_session
          /\ ~data.cookies
          /\ ~data.credential
    /\ ( /\ pc = "response"
         /\ resp.from = "handler"
         /\ resp.did # <<>>
         /\ data.pre # None
         /\ now - LoginTime(data.pre) <= 86400 ) =>
          /\ Did(resp, "deserialize")
          /\ ~Did(resp, "authenticate")
          /\ \A env \in ServerEnvs, c \in BOOLEAN, d \in BOOLEAN :
                RemoteHandler(ProxyRequest([data EXCEPT !.cookies = c, !.credential = d], env), now)
                  = RemoteHandler(ProxyRequest(data, env), now)

C15_Witness ==
    /\ pc = "response"
    /\ phase = "first"
    /\ resp.from = "handler"
    /\ cached_session # None
    /\ call.cookies_content
    /\ resp.status = 200
    /\ Did(resp, "deserialize")

\* C16: the body of an error response has the fields status and message
\* and at most error_code besides, and no field of it holds the text of a
\* caught exception.
C16_NoExceptionText ==
    (hresp # None /\ hresp.status >= 400) =>
        /\ {"status", "message"} \subseteq hresp.body.keys
        /\ hresp.body.keys \subseteq {"status", "error_code", "message"}
        /\ hresp.body.exc = {}

---------------------------------------------------------------------------
(* remote_get_tracks on its own: any titles, any wanted filter             *)
(*                                                                         *)
(* A title is [kind |-> "Episode", season, number] or [kind |-> "Movie"].  *)
(* The body of the request holds wanted (the list of tokens, <<>> when     *)
(* absent), season and episode (<<>> when absent, <<n>> when the body has  *)
(* the integer n).                                                         *)

MaxTitles == 3
MaxWanted == 3

Seasons == {1, 2}
Numbers == {2, 7, 12}

Digit(n) ==
    CASE n = 0 -> "0" [] n = 1 -> "1" [] n = 2 -> "2" [] n = 3 -> "3" [] n = 4 -> "4"
      [] n = 5 -> "5" [] n = 6 -> "6" [] n = 7 -> "7" [] n = 8 -> "8" [] n = 9 -> "9"

RECURSIVE Str(_)
\* str(n), the text of {n} in an f-string, for an int n >= 0.
Str(n) == IF n < 10 THEN Digit(n) ELSE Str(n \div 10) \o Digit(n % 10)

\* The text of {n:02d} in an f-string.
Pad2(n) == IF n < 10 THEN "0" \o Str(n) ELSE Str(n)

\* A key that pads season and number to two digits: not the code's, C19
\* tells them apart.
EpisodeKeyPadded(title) == Pad2(title.season) \o "x" \o Pad2(title.number)

\* episode_key = f"{title.season}x{title.number}" (line 864)
EpisodeKey(title) == Str(title.season) \o "x" \o Str(title.number)

\* f"S{title.season}E{title.number:02d}" (line 896)
FailedLabel(title) == "S" \o Str(title.season) \o "E" \o Pad2(title.number)

\* SeasonRange().parse_tokens(wanted_param) for tokens of the form SxE: the
\* tokens themselves.
ParseTokens(wanted_param) == wanted_param

InSeq(x, seq) == \E i \in 1..Len(seq) : seq[i] = x

\* The wanted list of lines 846-858: the parsed tokens, else the single key
\* made of season and episode when both are in the body, else nothing.
Wanted(body) ==
    IF body.wanted # <<>> THEN ParseTokens(body.wanted)
    ELSE IF body.season # <<>> /\ body.episode # <<>>
    THEN <<Str(body.season[1]) \o "x" \o Str(body.episode[1])>>
    ELSE <<>>

\* The filter loop of lines 860-868: an Episode is kept when its key is in
\* wanted, any other title is kept.
MatchingTitles(titles_list, wanted) ==
    SelectSeq(titles_list,
              LAMBDA title : IF title.kind = "Episode"
                             THEN InSeq(EpisodeKey(title), wanted)
                             ELSE TRUE)

\* (t.season, t.number) < (u.season, u.number)
KeyBefore(t, u) == t.season < u.season \/ (t.season = u.season /\ t.number < u.number)

\* The titles as they are, unsorted: not the code's, C18 tells them apart.
Unsorted(matching_titles) == matching_titles

RECURSIVE SortedTitles(_)
\* sorted(matching_titles, key=lambda t: (t.season, t.number)) (line 880):
\* a stable sort.
SortedTitles(matching_titles) ==
    IF matching_titles = <<>> THEN <<>>
    ELSE LET n == Len(matching_titles)
             last == matching_titles[n]
             rest == SortedTitles(SubSeq(matching_titles, 1, n - 1))
             k == Cardinality({ i \in 1..Len(rest) : ~KeyBefore(last, rest[i]) })
         IN  SubSeq(rest, 1, k) \o <<last>> \o SubSeq(rest, k + 1, Len(rest))

RECURSIVE Join(_, _)
\* sep.join(strings)
Join(sep, strings) ==
    IF strings = <<>> THEN ""
    ELSE IF Len(strings) = 1 THEN strings[1]
    ELSE strings[1] \o sep \o Join(sep, Tail(strings))

\* A response of remote_get_tracks: the HTTP status, the message of an error
\* body, the "title" of a single-title body, the "episodes" of a
\* multi-episode body (has_episodes: the body has the field), the
\* "unavailable_episodes" field (has_unavailable: the body has the field).
TracksResponse(status, message, title, has_episodes, episodes, has_unavailable, unavailable) ==
    [status |-> status, message |-> message, title |-> title,
     has_episodes |-> has_episodes, episodes |-> episodes,
     has_unavailable |-> has_unavailable, unavailable_episodes |-> unavailable]

TracksError(status, message) == TracksResponse(status, message, <<>>, FALSE, <<>>, FALSE, <<>>)

\* Lines 931-955: tracks of the single title first_title; an exception of
\* get_tracks ends in the handler's except clause (lines 957-959).
SingleTitle(first_title, fails) ==
    IF first_title \in fails
    THEN TracksError(500, "Internal server error while getting tracks")
    ELSE TracksResponse(200, "", <<first_title>>, FALSE, <<>>, FALSE, <<>>)

\* Lines 875-923: the loop over the sorted matching episodes; an episode
\* whose get_tracks raises (Exception or SystemExit) goes to failed_episodes
\* and the loop goes on.
MultiEpisode(matching_titles, fails) ==
    LET sorted_titles == SortedTitles(matching_titles)
        episodes_data == SelectSeq(sorted_titles, LAMBDA title : title \notin fails)
        failed == SelectSeq(sorted_titles, LAMBDA title : title \in fails)
        failed_episodes == [i \in 1..Len(failed) |-> FailedLabel(failed[i])]
    IN  IF episodes_data # <<>>
        THEN TracksResponse(200, "", <<>>, TRUE, episodes_data,
                            failed_episodes # <<>>, failed_episodes)
        ELSE TracksError(404, "No available episodes. Unavailable: "
                                \o Join(", ", failed_episodes))

\* remote_get_tracks from line 837 on: titles_list is what get_titles()
\* returned, body the request, bad_wanted whether parse_tokens raises on the
\* wanted value, fails the titles whose get_tracks raises.
RemoteGetTracks(titles_list, body, fails) ==
    IF body.wanted # <<>> /\ body.bad_wanted
    THEN TracksError(400, "Invalid wanted parameter: <exception>")
    ELSE LET wanted == Wanted(body)
             matching_titles == MatchingTitles(titles_list, wanted)
         IN  IF wanted # <<>>
             THEN IF matching_titles = <<>>
                  THEN TracksError(404, "No episodes found matching wanted criteria")
                  ELSE IF /\ Len(matching_titles) > 1
                          /\ \A i \in 1..Len(matching_titles) : matching_titles[i].kind = "Episode"
                       THEN MultiEpisode(matching_titles, fails)
                       ELSE SingleTitle(matching_titles[1], fails)
             ELSE IF titles_list = <<>>
                  THEN TracksError(500, "Internal server error while getting tracks")
                  ELSE SingleTitle(titles_list[1], fails)

SampleEpisodes == [kind : {"Episode"}, season : Seasons, number : Numbers]

\* What a service enumerates: a series of up to MaxTitles distinct episodes
\* in any order, or one movie.
SampleTitleLists ==
    { l \in UNION { [1..n -> SampleEpisodes] : n \in 0..MaxTitles } :
        \A i, j \in 1..Len(l) : i # j => l[i] # l[j] }
    \cup {<<[kind |-> "Movie"]>>}

\* The wanted tokens of the requests: keys of episodes, and a token that is
\* no episode's key.
SampleTokens == {"2x7", "1x2", "1x12", "02x07"}

\* The wanted values of the requests: up to MaxWanted different tokens.
SampleWanted ==
    { w \in UNION { [1..n -> SampleTokens] : n \in 0..MaxWanted } :
        \A i, j \in 1..Len(w) : i # j => w[i] # w[j] }

\* A POST /api/remote/<tag>/tracks arrives, past authentication; the service
\* enumerates its titles.
ReceiveTracks ==
    /\ treq = None
    /\ \E titles_list \in SampleTitleLists, wanted \in SampleWanted,
          season \in {<<>>, <<2>>}, episode \in {<<>>, <<7>>} :
        \E bad_wanted \in (IF wanted # <<>> THEN BOOLEAN ELSE {FALSE}) :
          /\ titles' = titles_list
          /\ treq' = [wanted |-> wanted, season |-> season, episode |-> episode,
                      bad_wanted |-> bad_wanted]
    /\ tresp' = None
    /\ UNCHANGED <<now, ticks, cacheVars, clientVars, handlerVars, serializeVars,
                   servicesVars, retryVars, configVars, fileVars, titleVars,
                   diskVars, licenseVars, cookieVars, profileVars>>

\* The handler filters the titles, resolves the tracks and answers; any set
\* of the titles may fail to resolve.  tresp keeps, next to the response,
\* the handler's matching_titles and the titles whose get_tracks raises.
HandleTracks ==
    /\ treq # None
    /\ tresp = None
    /\ \E fails \in SUBSET { titles[i] : i \in 1..Len(titles) } :
          tresp' = [response |-> RemoteGetTracks(titles, treq, fails),
                    matching |-> MatchingTitles(titles, Wanted(treq)),
                    fails |-> fails]
    /\ UNCHANGED <<now, ticks, cacheVars, clientVars, handlerVars, serializeVars, titles, treq,
                   servicesVars, retryVars, configVars, fileVars, titleVars,
                   diskVars, licenseVars, cookieVars, profileVars>>

\* The response is sent.
SendTracks ==
    /\ tresp # None
    /\ titles' = <<>>
    /\ treq' = None
    /\ tresp' = None
    /\ UNCHANGED <<now, ticks, cacheVars, clientVars, handlerVars, serializeVars,
                   servicesVars, retryVars, configVars, fileVars, titleVars,
                   diskVars, licenseVars, cookieVars, profileVars>>

TracksNext ==
    \/ ReceiveTracks
    \/ HandleTracks
    \/ SendTracks

TracksSpec == InitCommon /\ [][TracksNext]_vars

\* The response of the handler.
TracksAnswer == tresp.response

\* The titles the filter kept, as a set.
Matched == { tresp.matching[i] : i \in 1..Len(tresp.matching) }

\* The handler answered a request whose wanted value parsed and whose filter
\* kept more than one title, all of them episodes.
MultiEpisodeRequest ==
    /\ tresp # None
    /\ ~(treq.wanted # <<>> /\ treq.bad_wanted)
    /\ Len(tresp.matching) > 1
    /\ \A t \in Matched : t.kind = "Episode"

\* The entry names the episode: S<season>E<number>, padded or not.
Identifies(entry, title) ==
    entry \in { "S" \o s \o "E" \o n : s \in {Str(title.season), Pad2(title.season)},
                                       n \in {Str(title.number), Pad2(title.number)} }

\* C18: a tracks request matches k > 1 episodes, of which the set F fails to
\* resolve.  If F is not all of them the response is a success whose
\* episodes are exactly the matched episodes outside F in (season, number)
\* order, with unavailable_episodes naming exactly F and absent when F is
\* empty; if all fail the response is a 404 error.
C18_PartialAvailability ==
    MultiEpisodeRequest =>
        LET F == Matched \cap tresp.fails
            r == TracksAnswer
        IN  IF F # Matched
            THEN /\ r.status = 200
                 /\ r.has_episodes
                 /\ { r.episodes[i] : i \in 1..Len(r.episodes) } = Matched \ F
                 /\ \A i, j \in 1..Len(r.episodes) :
                        i < j => KeyBefore(r.episodes[i], r.episodes[j])
                 /\ r.has_unavailable = (F # {})
                 /\ Len(r.unavailable_episodes) = Cardinality(F)
                 /\ \A t \in F : \E i \in 1..Len(r.unavailable_episodes) :
                        Identifies(r.unavailable_episodes[i], t)
            ELSE /\ r.status = 404
                 /\ ~r.has_episodes

\* Three episodes matched, enumerated out of order; one failed, two resolved.
C18_Witness ==
    /\ MultiEpisodeRequest
    /\ Cardinality(Matched) = 3
    /\ Cardinality(Matched \cap tresp.fails) = 1
    /\ KeyBefore(tresp.matching[3], tresp.matching[1])
    /\ Len(TracksAnswer.episodes) = 2
    /\ TracksAnswer.has_unavailable

\* The Episode titles the service enumerated.
EnumeratedEpisodes == { t \in { titles[i] : i \in 1..Len(titles) } : t.kind = "Episode" }

\* The wanted tokens of the request: its wanted list, else the one token
\* made of its season and episode.
RequestTokens ==
    IF treq.wanted # <<>> THEN { treq.wanted[i] : i \in 1..Len(treq.wanted) }
    ELSE IF treq.season # <<>> /\ treq.episode # <<>>
    THEN { Str(treq.season[1]) \o "x" \o Str(treq.episode[1]) }
    ELSE {}

\* The handler filtered the titles of a request that has wanted tokens.
Filtered ==
    /\ tresp # None
    /\ ~(treq.wanted # <<>> /\ treq.bad_wanted)
    /\ RequestTokens # {}

\* The request asks for season 2 episode 7, by token or by season and episode.
AsksFor2x7 ==
    \/ treq.wanted = <<"2x7">>
    \/ treq.wanted = <<>> /\ treq.season = <<2>> /\ treq.episode = <<7>>

\* C19: the filter keeps an Episode iff its key "{season}x{number}" is one
\* of the wanted tokens; the token "2x7", or season 2 with episode 7, keeps
\* the Episode of season 2 number 7 and no other Episode.
C19_FilterExact ==
    Filtered =>
        /\ \A t \in EnumeratedEpisodes :
              t \in Matched <=> (Str(t.season) \o "x" \o Str(t.number)) \in RequestTokens
        /\ AsksFor2x7 =>
              \A t \in EnumeratedEpisodes : t \in Matched <=> (t.season = 2 /\ t.number = 7)

\* Season 2 with episode 7 was asked of a service that enumerated that
\* episode after two others; the response is that episode's.
C19_Witness ==
    /\ Filtered
    /\ treq.wanted = <<>> /\ treq.season = <<2>> /\ treq.episode = <<7>>
    /\ Len(titles) = 3
    /\ titles[3] = [kind |-> "Episode", season |-> 2, number |-> 7]
    /\ TracksAnswer.status = 200
    /\ TracksAnswer.title = <<titles[3]>>

\* Every entry of unavailable_episodes is S<season>E<number> of a matched
\* episode that failed, season and number both padded to two digits.
BothPadded(entry) ==
    \E t \in Matched \cap tresp.fails :
        entry = "S" \o Pad2(t.season) \o "E" \o Pad2(t.number)

\* C20: each entry of unavailable_episodes names the failed episode as
\* S<season>E<number> with season and number zero-padded to two digits.
C20_UnavailableFormat ==
    (tresp # None /\ TracksAnswer.has_unavailable) =>
        \A i \in 1..Len(TracksAnswer.unavailable_episodes) :
            BothPadded(TracksAnswer.unavailable_episodes[i])

---------------------------------------------------------------------------
(* Service registry: src/unshackle/core/services.py and                    *)
(* src/unshackle/core/remote_services.py                                   *)
(*                                                                         *)
(* A configured remote is [url, api_key].  A remote answers the discovery  *)
(* GET with [kind, services]: kind "error" (the request raises), "invalid" *)
(* (a body without status success or without services) or "services";     *)
(* "skipped" stands for a remote that was not contacted.  A service_info   *)
(* is [tag, has_aliases, aliases].  The registry keeps its classes in      *)
(* insertion order, as the dict does.                                      *)

MaxRemotes == 2
MaxAdvertised == 2

\* _SERVICES with _ALIASES: the local services, sorted by tag.
LocalServices ==
    <<[tag |-> "DSNP", aliases |-> <<"DisneyPlus", "disney+">>],
      [tag |-> "NF", aliases |-> <<"netflix">>]>>

\* str.lower() on the service names of the model.
LowerName(name) ==
    CASE name = "DSNP" -> "dsnp"
      [] name = "NF" -> "nf"
      [] name = "DisneyPlus" -> "disneyplus"
      [] name = "DISNEYPLUS" -> "disneyplus"
      [] name = "Netflix" -> "netflix"
      [] name = "remote_DSNP" -> "remote_dsnp"
      [] name = "REMOTE_DSNP" -> "remote_dsnp"
      [] name = "remote_NF" -> "remote_nf"
      [] name = "remote_DisneyPlus" -> "remote_disneyplus"
      [] name = "remote_Netflix" -> "remote_netflix"
      [] OTHER -> name

\* url.rstrip("/") on the URLs of the model.
Rstrip(url) ==
    CASE url = "https://r1/" -> "https://r1"
      [] OTHER -> url

\* The indices of a sequence that satisfy a test, smallest first.
FirstIndex(indices) == CHOOSE i \in indices : \A j \in indices : i <= j

\* A registration that replaces the class already bound to the tag: not the
\* code's, C22 tells them apart.
RegisterOverwriting(registry, remote_url, api_key, service_info) ==
    IF service_info.tag = "" THEN registry
    ELSE LET remote_tag == "remote_" \o service_info.tag
             class == [key |-> remote_tag, remote_url |-> remote_url, api_key |-> api_key,
                       service_tag |-> service_info.tag,
                       ALIASES |-> [i \in 1..Len(service_info.aliases) |->
                                      "remote_" \o service_info.aliases[i]]]
         IN  SelectSeq(registry, LAMBDA c : c.key # remote_tag) \o <<class>>

\* _register_remote_service: the class DynamicRemoteService bound to
\* (remote_url, api_key, service_tag), with the prefixed aliases when the
\* service_info has aliases and RemoteService's empty ALIASES otherwise.
RegisterRemoteService(registry, remote_url, api_key, service_info) ==
    IF service_info.tag = "" THEN registry
    ELSE LET remote_tag == "remote_" \o service_info.tag
         IN  IF \E i \in 1..Len(registry) : registry[i].key = remote_tag
             THEN registry
             ELSE registry \o
                  <<[key |-> remote_tag, remote_url |-> remote_url, api_key |-> api_key,
                     service_tag |-> service_info.tag,
                     ALIASES |-> IF service_info.has_aliases
                                 THEN [i \in 1..Len(service_info.aliases) |->
                                         "remote_" \o service_info.aliases[i]]
                                 ELSE <<>>]>>

RECURSIVE RegisterAll(_, _, _, _)
\* The loop of lines 93-94 over the advertised services.
RegisterAll(registry, remote_url, api_key, services) ==
    IF services = <<>> THEN registry
    ELSE RegisterAll(RegisterRemoteService(registry, remote_url, api_key, services[1]),
                     remote_url, api_key, Tail(services))

\* The remote is contacted: its configuration has a url and an api_key.
Contacted(remote_config) == Rstrip(remote_config.url) # "" /\ remote_config.api_key # ""

\* _discover_from_server inside the try of discover_services: an exception
\* of the request is logged and the next remote is tried.
DiscoverFromServer(registry, remote_config, answer) ==
    IF ~Contacted(remote_config) THEN registry
    ELSE IF answer.kind # "services" THEN registry
    ELSE RegisterAll(registry, Rstrip(remote_config.url), remote_config.api_key, answer.services)

\* Services.get_tag(value) over the local services and the registry.
GetTag(value, registry) ==
    LET lowered == LowerName(value)
        local == { i \in 1..Len(LocalServices) :
                     \/ lowered = LowerName(LocalServices[i].tag)
                     \/ InSeq(lowered, LocalServices[i].aliases) }
        remote == { i \in 1..Len(registry) :
                      \/ lowered = LowerName(registry[i].key)
                      \/ \E a \in 1..Len(registry[i].ALIASES) :
                            lowered = LowerName(registry[i].ALIASES[a]) }
    IN  IF local # {} THEN LocalServices[FirstIndex(local)].tag
        ELSE IF remote # {} THEN registry[FirstIndex(remote)].key
        ELSE value

SampleRemoteConfigs ==
    {[url |-> "https://r1/", api_key |-> "k1"],
     [url |-> "https://r2", api_key |-> "k2"],
     [url |-> "", api_key |-> "k3"],
     [url |-> "https://r3", api_key |-> ""]}

SampleServiceInfos ==
    {[tag |-> "DSNP", has_aliases |-> TRUE, aliases |-> <<"DisneyPlus">>],
     [tag |-> "DSNP", has_aliases |-> FALSE, aliases |-> <<>>],
     [tag |-> "NF", has_aliases |-> TRUE, aliases |-> <<"Netflix">>],
     [tag |-> "", has_aliases |-> FALSE, aliases |-> <<>>]}

SampleAnswers ==
    {[kind |-> "error", services |-> <<>>], [kind |-> "invalid", services |-> <<>>]}
    \cup { [kind |-> "services", services |-> l] :
             l \in UNION { [1..n -> SampleServiceInfos] : n \in 0..MaxAdvertised } }

SampleValues ==
    {"DSNP", "dsnp", "DisneyPlus", "disneyplus", "disney+", "netflix", "Netflix",
     "remote_DSNP", "REMOTE_DSNP", "remote_disneyplus", "remote_Netflix", "remote_nf", "unknown"}

\* config.remote_services is read: up to MaxRemotes remotes, in order.
Configure ==
    /\ remote_configs = <<>>
    /\ lookup = None
    /\ \E n \in 1..MaxRemotes : \E l \in [1..n -> SampleRemoteConfigs] : remote_configs' = l
    /\ UNCHANGED <<now, ticks, cacheVars, clientVars, handlerVars, serializeVars, tracksVars,
                   advertised, remote_services, lookup, retryVars, configVars, fileVars, titleVars,
                   diskVars, licenseVars, cookieVars, profileVars>>

\* One turn of the loop of discover_services: the next configured remote.
Discover ==
    /\ Len(advertised) < Len(remote_configs)
    /\ LET remote_config == remote_configs[Len(advertised) + 1]
       IN  \E answer \in (IF Contacted(remote_config) THEN SampleAnswers
                          ELSE {[kind |-> "skipped", services |-> <<>>]}) :
              /\ remote_services' = DiscoverFromServer(remote_services, remote_config, answer)
              /\ advertised' = Append(advertised, answer)
    /\ UNCHANGED <<now, ticks, cacheVars, clientVars, handlerVars, serializeVars, tracksVars,
                   remote_configs, lookup, retryVars, configVars, fileVars, titleVars,
                   diskVars, licenseVars, cookieVars, profileVars>>

\* Services.get_tag(value), once the manager has discovered its remotes.
LookupTag ==
    /\ Len(advertised) = Len(remote_configs)
    /\ \E value \in SampleValues :
          lookup' = [value |-> value, result |-> GetTag(value, remote_services)]
    /\ UNCHANGED <<now, ticks, cacheVars, clientVars, handlerVars, serializeVars, tracksVars,
                   remote_configs, advertised, remote_services, retryVars, configVars,
                   fileVars, titleVars, diskVars, licenseVars, cookieVars, profileVars>>

ServicesNext ==
    \/ Configure
    \/ Discover
    \/ LookupTag

ServicesSpec == InitCommon /\ [][ServicesNext]_vars

\* The names a service answers to: its tag and its aliases.
LocalNames(i) ==
    {LocalServices[i].tag} \cup
    { LocalServices[i].aliases[a] : a \in 1..Len(LocalServices[i].aliases) }

RemoteNames(i) ==
    {remote_services[i].key} \cup
    { remote_services[i].ALIASES[a] : a \in 1..Len(remote_services[i].ALIASES) }

\* The tags of the services that have a tag or alias equal to x up to
\* letter case.
TagsNamed(x) ==
    { LocalServices[i].tag : i \in { j \in 1..Len(LocalServices) :
          \E n \in LocalNames(j) : LowerName(n) = LowerName(x) } }
    \cup
    { remote_services[i].key : i \in { j \in 1..Len(remote_services) :
          \E n \in RemoteNames(j) : LowerName(n) = LowerName(x) } }

\* C21: get_tag(x) returns the tag of a service that has a tag or alias
\* equal to x up to letter case, and x itself when there is none.
C21_GetTagCaseInsensitive ==
    lookup # None =>
        IF TagsNamed(lookup.value) # {}
        THEN lookup.result \in TagsNamed(lookup.value)
        ELSE lookup.result = lookup.value

\* The remote of index i advertised the tag.
Advertises(i, tag) ==
    /\ advertised[i].kind = "services"
    /\ \E k \in 1..Len(advertised[i].services) : advertised[i].services[k].tag = tag

\* The first service_info with the tag in the answer of the remote of index i.
FirstInfo(i, tag) ==
    advertised[i].services[
        FirstIndex({ k \in 1..Len(advertised[i].services) : advertised[i].services[k].tag = tag })]

\* C22: every key of the registry is remote_<tag>; its class is bound to the
\* url, api_key and tag of the first configured remote that advertised the
\* tag, with exactly the aliases remote_<alias> that remote advertised for
\* it; no tag is bound twice and every advertised tag is bound.
C22_RegistryBinding ==
    /\ \A e \in 1..Len(remote_services) :
         LET class == remote_services[e]
             from == { i \in 1..Len(advertised) : Advertises(i, class.service_tag) }
         IN  /\ class.key = "remote_" \o class.service_tag
             /\ from # {}
             /\ LET first == FirstIndex(from)
                    info == FirstInfo(first, class.service_tag)
                IN  /\ class.remote_url = Rstrip(remote_configs[first].url)
                    /\ class.api_key = remote_configs[first].api_key
                    /\ { class.ALIASES[a] : a \in 1..Len(class.ALIASES) } =
                       { "remote_" \o info.aliases[a] : a \in 1..Len(info.aliases) }
             /\ \A f \in 1..Len(remote_services) :
                  remote_services[f].key = class.key => f = e
    /\ \A i \in 1..Len(advertised) : \A tag \in {"DSNP", "NF"} :
         Advertises(i, tag) =>
            \E e \in 1..Len(remote_services) : remote_services[e].service_tag = tag

\* Two remotes advertised DSNP with different aliases; the registry holds
\* the class of the first.
C22_Witness ==
    /\ Len(advertised) = 2
    /\ Advertises(1, "DSNP") /\ Advertises(2, "DSNP")
    /\ remote_configs[1] # remote_configs[2]
    /\ FirstInfo(1, "DSNP") # FirstInfo(2, "DSNP")
    /\ Len(remote_services) >= 1

---------------------------------------------------------------------------
(* Retrying clients: src/unshackle/core/clients/base.py, retry.py and      *)
(* src/unshackle/core/session.py                                           *)
(*                                                                         *)
(* A call is a record: for the facade [client |-> "facade", method,        *)
(* retries, backoff_multiplier, retry_statuses, retry_methods], for        *)
(* CurlSession [client |-> "curl", method, max_retries, backoff_factor,    *)
(* max_backoff, status_forcelist, allowed_methods].  An underlying request *)
(* ends in [kind, status, retry_after, network]: a response with its       *)
(* status and Retry-After header, or an exception (network: it is one of   *)
(* ConnectionError, SSLError, Timeout).  Times are in milliseconds.        *)

MaxRetries == 3

\* str.upper() on the methods of the model.
Upper(method) ==
    CASE method = "get" -> "GET"
      [] method = "put" -> "PUT"
      [] OTHER -> method

\* A test of the method as it was passed: not the code's, C24 tells them
\* apart.
RetriedAnyCase(method, methods) == method \in methods

\* method.upper() in self._retry_methods (base.py:56, 70);
\* method.upper() in self.allowed_methods (session.py:74).
Retried(method, methods) == Upper(method) \in methods

\* A stop that allows one attempt more: not tenacity's, C23 tells them apart.
StopAfterAttemptLate(retries, attempt_number) == attempt_number > retries

\* stop_after_attempt(config.retries) after attempt attempt_number.
StopAfterAttempt(retries, attempt_number) == attempt_number >= retries

\* wait_exponential(multiplier) after attempt attempt_number.
WaitExponential(multiplier, attempt_number) == multiplier * 2 ^ (attempt_number - 1)

Returned(status) == [kind |-> "returned", type |-> "", status |-> status]

Raised(type, status) == [kind |-> "raised", type |-> type, status |-> status]

Again(delay) == [again |-> TRUE, delay |-> delay, outcome |-> None]

Ends(ended) == [again |-> FALSE, delay |-> 0, outcome |-> ended]

\* BaseHttpClient._execute around one more underlying request that ends in
\* o, after the requests of made: raw_call, the retry of build_retry with
\* reraise, then response.raise_for_status().
FacadeStep(rq, made, o) ==
    LET attempt_number == Len(made) + 1
        retried == Retried(rq.method, rq.retry_methods)
        error == IF o.kind = "exception" THEN "NetworkError"
                 ELSE IF retried /\ o.status \in rq.retry_statuses THEN "NetworkHTTPError"
                 ELSE ""
    IN  IF error # ""
        THEN IF retried /\ ~StopAfterAttempt(rq.retries, attempt_number)
             THEN Again(WaitExponential(rq.backoff_multiplier, attempt_number))
             ELSE Ends(Raised(error, o.status))
        ELSE IF o.status >= 400
             THEN Ends(Raised("HTTPError", o.status))
             ELSE Ends(Returned(o.status))

\* The seconds of a Retry-After header, as float(retry_after) or as the
\* distance of its HTTP-date from now.
RetryAfterDelay(retry_after) ==
    IF retry_after.form = "seconds" THEN retry_after.value * 1000 ELSE retry_after.value

\* CurlSession._get_sleep_time(response, attempt); jitter is the sign of the
\* random.uniform draw.
GetSleepTime(rq, o, attempt, jitter) ==
    IF o.kind = "response" /\ o.retry_after.form # "absent"
    THEN RetryAfterDelay(o.retry_after)
    ELSE LET backoff_value == rq.backoff_factor * 2 ^ (attempt - 1)
             sleep_time == backoff_value + jitter * (backoff_value \div 10)
         IN  IF sleep_time < rq.max_backoff THEN sleep_time ELSE rq.max_backoff

\* CurlSession.request around one more underlying request that ends in o,
\* after the requests of made.
CurlStep(rq, made, o, jitter) ==
    LET attempt == Len(made)
    IN  IF ~Retried(rq.method, rq.allowed_methods)
        THEN IF o.kind = "response" THEN Ends(Returned(o.status))
             ELSE Ends(Raised("RequestException", 0))
        ELSE IF o.kind = "response" /\ o.status \notin rq.status_forcelist
        THEN Ends(Returned(o.status))
        ELSE IF o.kind = "exception" /\ ~o.network
        THEN Ends(Raised("RequestException", 0))
        ELSE IF attempt < rq.max_retries
        THEN LET sleep_duration == GetSleepTime(rq, o, attempt + 1, jitter)
             IN  Again(IF sleep_duration > 0 THEN sleep_duration ELSE 0)
        ELSE Ends(Raised("MaxRetriesError", o.status))

SampleMethods == {"GET", "get", "PUT", "PATCH"}

SampleCalls ==
    [client : {"facade"}, method : SampleMethods, retries : 0..MaxRetries,
     backoff_multiplier : {1000}, retry_statuses : {{429, 500, 502, 503, 504}},
     retry_methods : {{"GET", "POST"}}]
    \cup
    [client : {"curl"}, method : SampleMethods, max_retries : 0..(MaxRetries - 1),
     backoff_factor : {200}, max_backoff : {300, 60000},
     status_forcelist : {{429, 500, 502, 503, 504}},
     allowed_methods : {{"GET", "POST", "HEAD", "OPTIONS", "PUT", "DELETE", "TRACE"}}]

NoRetryAfter == [form |-> "absent", value |-> 0]

\* Retry-After: 0, 2 and 120 seconds, a date 30 s ahead and a date 5 s ago.
SampleRetryAfter ==
    {[form |-> "seconds", value |-> 0], [form |-> "seconds", value |-> 2],
     [form |-> "seconds", value |-> 120], [form |-> "date", value |-> 30000],
     [form |-> "date", value |-> 0 - 5000]}

SampleOutcomes ==
    { [kind |-> "response", status |-> s, retry_after |-> NoRetryAfter, network |-> FALSE] :
        s \in {200, 404, 503} }
    \cup
    { [kind |-> "response", status |-> 503, retry_after |-> ra, network |-> FALSE] :
        ra \in SampleRetryAfter }
    \cup
    { [kind |-> "exception", status |-> 0, retry_after |-> NoRetryAfter, network |-> n] :
        n \in BOOLEAN }

\* get / post / request is called on a client.
StartRequest ==
    /\ rcall = None
    /\ \E rq \in SampleCalls : rcall' = rq
    /\ attempts' = <<>>
    /\ slept' = <<>>
    /\ outcome' = None
    /\ UNCHANGED <<now, ticks, cacheVars, clientVars, handlerVars, serializeVars, tracksVars,
                   servicesVars, configVars, fileVars, titleVars,
                   diskVars, licenseVars, cookieVars, profileVars>>

\* One underlying request and what the client does with its outcome: it
\* returns, raises, or sleeps before the next attempt.
Attempt ==
    /\ rcall # None
    /\ outcome = None
    /\ \E o \in SampleOutcomes, jitter \in {0 - 1, 0, 1} :
          LET step == IF rcall.client = "facade" THEN FacadeStep(rcall, attempts, o)
                      ELSE CurlStep(rcall, attempts, o, jitter)
          IN  /\ attempts' = Append(attempts, o)
              /\ slept' = IF step.again THEN Append(slept, step.delay) ELSE slept
              /\ outcome' = step.outcome
    /\ UNCHANGED <<now, ticks, cacheVars, clientVars, handlerVars, serializeVars, tracksVars,
                   servicesVars, configVars, fileVars, titleVars, rcall,
                   diskVars, licenseVars, cookieVars, profileVars>>

\* The call is over.
EndRequest ==
    /\ outcome # None
    /\ rcall' = None
    /\ attempts' = <<>>
    /\ slept' = <<>>
    /\ outcome' = None
    /\ UNCHANGED <<now, ticks, cacheVars, clientVars, handlerVars, serializeVars, tracksVars,
                   servicesVars, configVars, fileVars, titleVars,
                   diskVars, licenseVars, cookieVars, profileVars>>

RetryNext ==
    \/ StartRequest
    \/ Attempt
    \/ EndRequest

RetrySpec == InitCommon /\ [][RetryNext]_vars

\* The retryable-methods set of the client of the running call.
MethodsOf(rq) == IF rq.client = "facade" THEN rq.retry_methods ELSE rq.allowed_methods

\* The retryable statuses of the client of the running call.
StatusesOf(rq) == IF rq.client = "facade" THEN rq.retry_statuses ELSE rq.status_forcelist

\* The most underlying requests the configuration of the call allows.
AttemptLimit(rq) == IF rq.client = "facade" THEN rq.retries ELSE rq.max_retries + 1

\* The request ended in a network exception or in a retryable status.
RetryableFailure(rq, o) ==
    \/ o.kind = "exception" /\ (rq.client = "facade" \/ o.network)
    \/ o.kind = "response" /\ o.status \in StatusesOf(rq)

\* A facade call whose method is a retry method and whose every request so
\* far was answered with a retry status.
KeepsAnswering ==
    /\ rcall # None
    /\ rcall.client = "facade"
    /\ Upper(rcall.method) \in rcall.retry_methods
    /\ attempts # <<>>
    /\ \A i \in 1..Len(attempts) :
          attempts[i].kind = "response" /\ attempts[i].status \in rcall.retry_statuses

\* C23 as stated: while the server keeps answering with a retry status, the
\* facade makes at most retries underlying requests, and raises after the
\* last of them.
C23_AtMostMaxAttempts ==
    KeepsAnswering =>
        /\ Len(attempts) <= rcall.retries
        /\ Len(attempts) = rcall.retries => (outcome # None /\ outcome.kind = "raised")

\* C23, amended: at most retries underlying requests, and one when retries
\* is below one; NetworkHTTPError is raised after the last of them.
C23_AtMostMaxAttemptsOrOne ==
    KeepsAnswering =>
        LET limit == IF rcall.retries >= 1 THEN rcall.retries ELSE 1
        IN  /\ Len(attempts) <= limit
            /\ Len(attempts) = limit =>
                  (outcome # None /\ outcome.kind = "raised" /\ outcome.type = "NetworkHTTPError")
            /\ Len(attempts) < limit => outcome = None

\* Three 503 answers to a GET of a facade with retries 3: the error is raised.
C23_Witness ==
    /\ KeepsAnswering
    /\ rcall.retries = 3
    /\ Len(attempts) = 3
    /\ outcome # None
    /\ outcome.kind = "raised"

C26_OnlyNetworkErrors ==
    (rcall # None /\ rcall.client = "facade" /\ outcome # None /\ outcome.kind = "raised") =>
        outcome.type \in {"NetworkError", "NetworkHTTPError"}

\* The delay a Retry-After header asks for: its seconds, or the time left
\* until its date (none when the date is past).
HeaderDelay(retry_after) ==
    IF retry_after.form = "seconds" THEN retry_after.value * 1000
    ELSE IF retry_after.value > 0 THEN retry_after.value ELSE 0

\* C27: when a retried response carries a Retry-After header, the delay
\* before the next attempt is the header's, in the facade and in CurlSession.
C27_RetryAfterHonoured ==
    rcall # None =>
        \A i \in 1..Len(slept) :
            (attempts[i].kind = "response" /\ attempts[i].retry_after.form # "absent") =>
                slept[i] = HeaderDelay(attempts[i].retry_after)

\* C28: every delay slept between two attempts of a CurlSession.request
\* call is at most max_backoff.
C28_DelayCapped ==
    (rcall # None /\ rcall.client = "curl") =>
        \A i \in 1..Len(slept) : slept[i] <= rcall.max_backoff

\* The part of C27 about CurlSession alone.
C27_CurlHonoursRetryAfter ==
    (rcall # None /\ rcall.client = "curl") => C27_RetryAfterHonoured

(***************************************************************************)
(* The live configuration of a facade client: BaseHttpClient.__init__ and  *)
(* BaseHttpClient.update_config, as HttpClientFactory.session calls them.  *)
(* A dict is a function from its keys to its values.                       *)
(***************************************************************************)

ClientHeaderNames == {"User-Agent", "Accept"}

ClientHeaderValues == {"a", "b"}

\* dict.update(other): the keys of other take other's values.
DictUpdate(d, other) ==
    [k \in (DOMAIN d) \cup (DOMAIN other) |-> IF k \in DOMAIN other THEN other[k] ELSE d[k]]

\* The three tests of update_config: a change of type or proxy, or
\* non-empty options that differ from the current ones.
Rejects(current, config) ==
    \/ config.type # current.type
    \/ config.proxy # current.proxy
    \/ (Len(config.args) > 0 /\ config.args # current.args)

\* _build_client of the adapter registered for the type: the requests
\* adapter refuses constructor options.
BuildRaises(config) == config.type = "requests" /\ Len(config.args) > 0

SampleClientHeaders == UNION { [names -> ClientHeaderValues] : names \in SUBSET ClientHeaderNames }

\* args holds the value of the "browser" option, when one is given.
SampleConfigs ==
    [type : {"requests", "curl_cffi"}, proxy : {"", "http://proxy:8080"},
     args : {<<>>, <<"chrome">>, <<"firefox">>}, headers : SampleClientHeaders]

\* HttpClientFactory.session for a name without a client: cls(config_obj).
BuildClient ==
    /\ facade = None
    /\ \E config \in SampleConfigs :
          facade' = IF BuildRaises(config) THEN None
                    ELSE [config |-> [type |-> config.type, proxy |-> config.proxy,
                                      args |-> config.args],
                          headers |-> config.headers]
    /\ updated' = None
    /\ UNCHANGED <<now, ticks, cacheVars, clientVars, handlerVars, serializeVars, tracksVars,
                   servicesVars, retryVars, fileVars, titleVars,
                   diskVars, licenseVars, cookieVars, profileVars>>

\* HttpClientFactory.session for a name that has a client:
\* update_config(config_obj). updated records the call and the client
\* before it.
UpdateConfig ==
    /\ facade # None
    /\ \E config \in SampleConfigs :
          LET raised == Rejects(facade.config, config)
          IN  /\ facade' = IF raised THEN facade
                           ELSE [facade EXCEPT !.headers = DictUpdate(facade.headers, config.headers)]
              /\ updated' = [config |-> config, before |-> facade, raised |-> raised]
    /\ UNCHANGED <<now, ticks, cacheVars, clientVars, handlerVars, serializeVars, tracksVars,
                   servicesVars, retryVars, fileVars, titleVars,
                   diskVars, licenseVars, cookieVars, profileVars>>

\* close(): the client is dropped.
CloseClient ==
    /\ facade # None
    /\ facade' = None
    /\ updated' = None
    /\ UNCHANGED <<now, ticks, cacheVars, clientVars, handlerVars, serializeVars, tracksVars,
                   servicesVars, retryVars, fileVars, titleVars,
                   diskVars, licenseVars, cookieVars, profileVars>>

ConfigNext ==
    \/ BuildClient
    \/ UpdateConfig
    \/ CloseClient

ConfigSpec == InitCommon /\ [][ConfigNext]_vars

\* The configuration given to update_config differs from the current one
\* in type, proxy or constructor options.
Differs(current, config) ==
    \/ config.type # current.type
    \/ config.proxy # current.proxy
    \/ config.args # current.args

\* C25: update_config(c) raises and leaves headers and configuration as
\* they were whenever c differs in type, proxy or constructor options (a
\* change from non-empty to empty options included); otherwise it merges
\* c's headers and changes nothing else.
C25_UpdateRejectsChanges ==
    updated # None =>
        IF Differs(updated.before.config, updated.config)
        THEN updated.raised /\ facade = updated.before
        ELSE /\ ~updated.raised
             /\ facade.config = updated.before.config
             /\ facade.headers = DictUpdate(updated.before.headers, updated.config.headers)

(***************************************************************************)
(* LocalFileAdapter.send: a file:// URL answered from the filesystem.      *)
(* files maps each existing path to its entry: a regular file or a         *)
(* directory, readable by the process or not, with the bytes of a file.    *)
(***************************************************************************)

MaxBytes == 2

SamplePaths == {"/tmp/a.mpd", "/tmp/b.m3u8"}

SampleEntries ==
    [kind : {"file"}, readable : BOOLEAN,
     bytes : UNION { [1..n -> {0, 255}] : n \in 0..MaxBytes }]
    \cup
    { [kind |-> "dir", readable |-> TRUE, bytes |-> <<>>] }

\* An open that succeeds on every existing path: not the code's, C29 tells
\* them apart.
OpensAnything(fs, path) == path \in DOMAIN fs

\* open(file_path, "rb") succeeds: a regular file the process may read.
Opens(fs, path) == path \in DOMAIN fs /\ fs[path].kind = "file" /\ fs[path].readable

\* file_path.stat() succeeds: the path exists.
Stats(fs, path) == path \in DOMAIN fs

\* str(e) of the exception of stat() or open().
ErrorMessage(fs, path) ==
    IF ~Stats(fs, path) THEN "[Errno 2] No such file or directory: '" \o path \o "'"
    ELSE IF fs[path].kind = "dir" THEN "[Errno 21] Is a directory: '" \o path \o "'"
    ELSE "[Errno 13] Permission denied: '" \o path \o "'"

\* send(request): the response, with raw read into body.
LocalFileSend(fs, path) ==
    IF Stats(fs, path) /\ Opens(fs, path)
    THEN [path |-> path, status_code |-> 200,
          headers |-> <<<<"Content-Length", Str(Len(fs[path].bytes))>>>>,
          body |-> fs[path].bytes, content |-> "", raised |-> FALSE]
    ELSE [path |-> path, status_code |-> 404, headers |-> <<>>,
          body |-> <<>>, content |-> ErrorMessage(fs, path), raised |-> FALSE]

\* The filesystem changes under the program: a path is created, replaced
\* or removed. The last response is dropped with the files it was about.
ChangeFiles ==
    /\ \E path \in SamplePaths :
          \/ \E entry \in SampleEntries :
                files' = [p \in (DOMAIN files) \cup {path} |->
                            IF p = path THEN entry ELSE files[p]]
          \/ /\ path \in DOMAIN files
             /\ files' = [p \in (DOMAIN files) \ {path} |-> files[p]]
    /\ sent' = None
    /\ UNCHANGED <<now, ticks, cacheVars, clientVars, handlerVars, serializeVars, tracksVars,
                   servicesVars, retryVars, configVars, titleVars,
                   diskVars, licenseVars, cookieVars, profileVars>>

\* session.get("file://" + path) through the mounted adapter.
SendFile ==
    /\ \E path \in SamplePaths : sent' = LocalFileSend(files, path)
    /\ UNCHANGED <<now, ticks, cacheVars, clientVars, handlerVars, serializeVars, tracksVars,
                   servicesVars, retryVars, configVars, titleVars, files,
                   diskVars, licenseVars, cookieVars, profileVars>>

FileNext ==
    \/ ChangeFiles
    \/ SendFile

FileSpec == InitCommon /\ [][FileNext]_vars

\* The path of the last response is a regular file the process may read.
ExistsReadable ==
    /\ sent.path \in DOMAIN files
    /\ files[sent.path].kind = "file"
    /\ files[sent.path].readable

\* C29: send answers 200 with Content-Length equal to the file's size and
\* the file's bytes as body when the file exists and is readable, and 404
\* with the error message as body, raising nothing, otherwise.
C29_LocalFileResponse ==
    sent # None =>
        /\ ~sent.raised
        /\ IF ExistsReadable
           THEN /\ sent.status_code = 200
                /\ sent.headers = <<<<"Content-Length", Str(Len(files[sent.path].bytes))>>>>
                /\ sent.body = files[sent.path].bytes
           ELSE /\ sent.status_code = 404
                /\ sent.content # ""
                /\ sent.content = ErrorMessage(files, sent.path)

\* A readable two-byte file was served, with another path unreadable.
C29_Witness ==
    /\ sent # None
    /\ ExistsReadable
    /\ Len(files[sent.path].bytes) = 2
    /\ sent.status_code = 200
    /\ \E p \in DOMAIN files : ~files[p].readable

\* An unreadable file was asked for and answered 404.
C29_WitnessUnreadable ==
    /\ sent # None
    /\ sent.path \in DOMAIN files
    /\ ~files[sent.path].readable
    /\ sent.status_code = 404

(***************************************************************************)
(* Titles over the wire: the server's serialize_title and the rebuild of   *)
(* RemoteService.get_titles. A title is a record of its class and          *)
(* attributes; an attribute that is None is <<>>, one that is v is <<v>>.  *)
(* An id is its text and whether it is an int.                             *)
(***************************************************************************)

MaxServed == 2

MaxNumber == 2

\* str(id).
StrId(id) == [int |-> FALSE, text |-> id.text]

\* str.lower() of the names and series titles of the samples.
TitleLower(s) ==
    CASE s = "Show" -> "show" [] s = "SHOW" -> "show" [] s = "Pilot" -> "pilot"
      [] s = "Heat" -> "heat" [] OTHER -> s

\* re.match(r"Episode ?#?\d+", name, re.IGNORECASE) on the names of the
\* samples and the names serialize_title makes up.
MatchesEpisodeNumber(name) == name \in { "Episode " \o Pad2(n) : n \in 0..99 }

\* Episode.__init__: the name is dropped when it is the episode number or
\* the series title.
NewEpisode(id, title, season, number, name, year) ==
    [type |-> "Episode", id |-> id, title |-> title, season |-> <<season>>,
     number |-> <<number>>,
     name |-> IF name = <<>> THEN <<>>
              ELSE IF MatchesEpisodeNumber(name[1]) THEN <<>>
              ELSE IF TitleLower(name[1]) = TitleLower(title) THEN <<>>
              ELSE name,
     year |-> year]

\* Movie.__init__.
NewMovie(id, name, year) ==
    [type |-> "Movie", id |-> id, title |-> "", season |-> <<>>, number |-> <<>>,
     name |-> <<name>>, year |-> year]

\* Song.__init__; disc and track are kept as season and number of the
\* record, album as its title.
NewSong(id, name, album, track, disc, year) ==
    [type |-> "Song", id |-> id, title |-> album, season |-> <<disc>>, number |-> <<track>>,
     name |-> <<name>>, year |-> <<year>>]

\* serialize_title(title).
SerializeTitle(t) ==
    IF t.type = "Episode"
    THEN [type |-> "episode",
          name |-> IF t.name # <<>> THEN t.name[1] ELSE "Episode " \o Pad2(t.number[1]),
          series_title |-> t.title, season |-> t.season[1], number |-> t.number[1],
          year |-> t.year, id |-> StrId(t.id)]
    ELSE IF t.type = "Movie"
    THEN [type |-> "movie", name |-> t.name[1], year |-> t.year, id |-> StrId(t.id)]
    ELSE [type |-> "other", name |-> t.name[1], id |-> StrId(t.id)]

\* The key of Series, Movies and Album: (season, number, year or 0),
\* year or 0, (album, disc, track, year) within one album.
ContainerKey(t) ==
    <<IF t.season = <<>> THEN 0 ELSE t.season[1],
      IF t.number = <<>> THEN 0 ELSE t.number[1],
      IF t.year = <<>> THEN 0 ELSE t.year[1]>>

ContainerKeyLess(a, b) ==
    LET ka == ContainerKey(a)
        kb == ContainerKey(b)
    IN  \/ ka[1] < kb[1]
        \/ ka[1] = kb[1] /\ ka[2] < kb[2]
        \/ ka[1] = kb[1] /\ ka[2] = kb[2] /\ ka[3] < kb[3]

RECURSIVE SortedAdd(_, _)
\* SortedKeyList.add: after the last element whose key is not greater.
SortedAdd(list, t) ==
    IF list = <<>> THEN <<t>>
    ELSE IF ContainerKeyLess(t, Head(list)) THEN <<t>> \o list
    ELSE <<Head(list)>> \o SortedAdd(Tail(list), t)

RECURSIVE SortedKeyList(_)
\* SortedKeyList(iterable, key).
SortedKeyList(list) ==
    IF list = <<>> THEN <<>>
    ELSE SortedAdd(SortedKeyList(SubSeq(list, 1, Len(list) - 1)), list[Len(list)])

RECURSIVE DeserializeTitles(_)
\* The loop of get_titles over titles_data: movies and episodes are
\* rebuilt, an entry of another type is passed over.
DeserializeTitles(titles_data) ==
    IF titles_data = <<>> THEN <<>>
    ELSE LET title_info == Head(titles_data)
             rest == DeserializeTitles(Tail(titles_data))
         IN  IF title_info.type = "movie"
             THEN <<NewMovie(title_info.id, title_info.name, title_info.year)>> \o rest
             ELSE IF title_info.type = "episode"
             THEN <<NewEpisode(title_info.id, title_info.series_title, title_info.season,
                               title_info.number, <<title_info.name>>, title_info.year)>> \o rest
             ELSE rest

\* get_titles on the answer of the server: Series when the first rebuilt
\* title is an Episode, Movies otherwise.
GetTitles(titles_data) ==
    LET rebuilding == DeserializeTitles(titles_data)
    IN  [container |-> IF rebuilding # <<>> /\ rebuilding[1].type = "Episode"
                       THEN "Series" ELSE "Movies",
         titles |-> SortedKeyList(rebuilding)]

\* The title list of the titles handler: serialize_title over the container.
TitleList(container) == [i \in 1..Len(container) |-> SerializeTitle(container[i])]

SampleIds == {[int |-> FALSE, text |-> "tt1"], [int |-> TRUE, text |-> "42"]}

SampleYears == {<<>>, <<2020>>}

SampleServedMovies == { NewMovie(id, "Heat", y) : id \in SampleIds, y \in SampleYears }

SampleServedEpisodes ==
    { NewEpisode(id, "Show", 1, n, name, <<>>) :
        id \in SampleIds, n \in 1..MaxNumber, name \in {<<>>, <<"Pilot">>, <<"SHOW">>} }

SampleServedSongs == { NewSong(id, "Intro", "Album", n, 1, 2020) : id \in SampleIds, n \in 1..MaxNumber }

\* What an adapter's get_titles returns: Movies, Series or Album.
SampleServed ==
    UNION { { SortedKeyList(list) : list \in UNION { [1..n -> class] : n \in 0..MaxServed } } :
            class \in {SampleServedMovies, SampleServedEpisodes, SampleServedSongs} }

\* The adapter on the server returns its titles.
ServeTitles ==
    /\ \E container \in SampleServed : served' = [titles |-> container]
    /\ rebuilt' = None
    /\ UNCHANGED <<now, ticks, cacheVars, clientVars, handlerVars, serializeVars, tracksVars,
                   servicesVars, retryVars, configVars, fileVars,
                   diskVars, licenseVars, cookieVars, profileVars>>

\* The titles handler serializes them and RemoteService.get_titles
\* rebuilds them.
RebuildTitles ==
    /\ served # None
    /\ rebuilt = None
    /\ rebuilt' = GetTitles(TitleList(served.titles))
    /\ UNCHANGED <<now, ticks, cacheVars, clientVars, handlerVars, serializeVars, tracksVars,
                   servicesVars, retryVars, configVars, fileVars, served,
                   diskVars, licenseVars, cookieVars, profileVars>>

TitlesNext ==
    \/ ServeTitles
    \/ RebuildTitles

TitlesSpec == InitCommon /\ [][TitlesNext]_vars

\* The rebuilt title has the type, id, name, year, season and number of t.
SameTitle(t, r) ==
    /\ r.type = t.type
    /\ r.id = t.id
    /\ r.name = t.name
    /\ r.year = t.year
    /\ r.season = t.season
    /\ r.number = t.number

\* C30: every title an adapter returned (Movie, Episode or Song) is
\* rebuilt by get_titles with the same type, id, name, year, season and
\* number, and no title is dropped from the list.
C30_TitleRoundTrip ==
    rebuilt # None =>
        /\ Len(rebuilt.titles) = Len(served.titles)
        /\ \A i \in 1..Len(served.titles) :
              i <= Len(rebuilt.titles) => SameTitle(served.titles[i], rebuilt.titles[i])

\* The part of C30 about movies and episodes whose id is a string.
C30_StringIdsRoundTrip ==
    (rebuilt # None /\ \A i \in 1..Len(served.titles) :
                          served.titles[i].type # "Song" /\ ~served.titles[i].id.int) =>
        /\ Len(rebuilt.titles) = Len(served.titles)
        /\ \A i \in 1..Len(served.titles) : SameTitle(served.titles[i], rebuilt.titles[i])

\* The part of C30 about dropped titles alone.
C30_NoTitleDropped ==
    rebuilt # None => Len(rebuilt.titles) = Len(served.titles)

---------------------------------------------------------------------------
(* The nested map of the Local Session Cache, under CacheSpec *)

\* The map has no remote_url level and no service_tag level that is empty.
NoEmptyLevel(s) ==
    \A r \in DOMAIN s :
        /\ DOMAIN s[r] # {}
        /\ \A t \in DOMAIN s[r] : DOMAIN s[r][t] # {}

\* The keys that have an entry in the map s.
KeysOf(s) == { k \in CacheKeys : HasEntry(s, k[1], k[2], k[3]) }

\* Every key of keys has in s the entry it has in before, or none in both.
SameEntries(before, s, keys) ==
    \A k \in keys :
        /\ (k \in KeysOf(before)) <=> (k \in KeysOf(s))
        /\ k \in KeysOf(s) => EntryOf(s, k) = EntryOf(before, k)

\* C39: from an empty cache, after any sequence of store_session,
\* get_session, has_session, delete_session and cleanup_expired the map has
\* no empty remote_url or service_tag level; an operation on key k leaves
\* the entries of all other keys unchanged; delete_session returns true iff
\* the key was present; cleanup_expired returns the number of entries it
\* removed.
C39_MapInvariants ==
    /\ NoEmptyLevel(sessions)
    /\ ret # None =>
          /\ ret.op \in {"store", "get", "has", "delete"} =>
                SameEntries(ret.before, sessions, CacheKeys \ {ret.key})
          /\ ret.op = "delete" =>
                /\ ret.value = (ret.key \in KeysOf(ret.before))
                /\ ret.key \notin KeysOf(sessions)
          /\ ret.op = "cleanup" =>
                /\ KeysOf(sessions) \subseteq KeysOf(ret.before)
                /\ SameEntries(ret.before, sessions, KeysOf(sessions))
                /\ ret.value = Cardinality(KeysOf(ret.before) \ KeysOf(sessions))

\* A delete_session that returned true for the only entry of its remote,
\* with the entry of another remote still in the map.
C39_Witness ==
    /\ ret # None
    /\ ret.op = "delete"
    /\ ret.value = TRUE
    /\ Cardinality(KeysOf(ret.before)) = 2
    /\ Cardinality(KeysOf(sessions)) = 1
    /\ ret.key[1] \notin DOMAIN sessions

\* A cleanup_expired that removed one of two entries.
C39_WitnessCleanup ==
    /\ ret # None
    /\ ret.op = "cleanup"
    /\ ret.value = 1
    /\ Cardinality(KeysOf(sessions)) = 1

(***************************************************************************)
(* remote_sessions.json on disk: LocalSessionCache.__init__,               *)
(* _load_sessions and _save_sessions. Each client process holds its own    *)
(* LocalSessionCache (get_local_session_cache is a singleton per process)  *)
(* on the one cache directory. Path.write_text opens the file for writing, *)
(* which empties it, and then writes the document; wr is the write between *)
(* the two.                                                                *)
(***************************************************************************)

MaxDiskOps == 4

Processes == {"A", "B"}

DiskKeys == {<<"https://r1", "SVC", "default">>, <<"https://r2", "SVC", "default">>}

\* The file after open(mode="w"), before the document is written.
Truncated == [state |-> "partial", doc |-> None]

\* _load_sessions: {} when the file does not exist or json.loads raises,
\* the document otherwise.
LoadSessions(d) == IF d.state = "complete" THEN d.doc ELSE None

\* The cache operations, as what they make of the map s at time t:
\* the new map, what they return, whether they call _save_sessions.
CacheOperation(op, k, s, t) ==
    CASE op = "store" ->
           [sessions |-> StoreSession(s, k[1], k[2], k[3],
                                      AuthenticateServiceLocally(k[2], k[3], AdapterLogin(t)), t),
            value |-> None, saves |-> TRUE]
      [] op = "delete" ->
           LET d == DeleteSession(s, k[1], k[2], k[3])
           IN  [sessions |-> d.sessions, value |-> d.deleted, saves |-> d.deleted]
      [] op = "get" ->
           LET g == GetSession(s, k[1], k[2], k[3], t)
           IN  [sessions |-> g.sessions, value |-> g.value, saves |-> g.saved]
      [] op = "cleanup" ->
           LET c == CleanupExpired(s, t)
           IN  [sessions |-> c.sessions, value |-> c.removed, saves |-> c.removed > 0]

\* What a completed operation leaves in done; n counts the operations.
Done(op, by, k, before, after, value, saves, wrote, d) ==
    [n |-> done.n + 1, op |-> op, by |-> by, key |-> k, before |-> before,
     sessions |-> after, value |-> value, saved |-> saves, wrote |-> wrote,
     loaded |-> LoadSessions(d)]

\* A process builds its cache: LocalSessionCache(cache_dir) loads the file.
OpenCache(i) ==
    /\ wr = None
    /\ ~mem[i].open
    /\ mem' = [mem EXCEPT ![i] = [open |-> TRUE, sessions |-> LoadSessions(disk)]]
    /\ UNCHANGED <<now, ticks, disk, wr, done>>

\* A process calls store_session, delete_session, get_session or
\* cleanup_expired. The map changes in memory; an operation that saves
\* opens the file for writing.
StartOperation(i) ==
    /\ wr = None
    /\ mem[i].open
    /\ done.n < MaxDiskOps
    /\ \E op \in {"store", "delete", "get", "cleanup"}, k \in DiskKeys :
          LET o == CacheOperation(op, k, mem[i].sessions, now)
              key == IF op = "cleanup" THEN <<>> ELSE k
          IN  /\ mem' = [mem EXCEPT ![i].sessions = o.sessions]
              /\ IF o.saves
                 THEN /\ wr' = [by |-> i, op |-> op, key |-> key, value |-> o.value,
                                doc |-> SaveSessions(o.sessions), before |-> disk]
                      /\ disk' = Truncated
                      /\ done' = done
                 ELSE /\ done' = Done(op, i, key, LoadSessions(disk), o.sessions, o.value,
                                      FALSE, FALSE, disk)
                      /\ UNCHANGED <<wr, disk>>
    /\ UNCHANGED <<now, ticks>>

\* write_text writes the document and closes the file; the operation returns.
FinishWrite ==
    /\ wr # None
    /\ disk' = [state |-> "complete", doc |-> wr.doc]
    /\ done' = Done(wr.op, wr.by, wr.key, LoadSessions(wr.before), wr.doc, wr.value,
                    TRUE, TRUE, disk')
    /\ wr' = None
    /\ UNCHANGED <<now, ticks, mem>>

\* write_text raises (the open is refused, or the disk is full after it):
\* _save_sessions logs the exception and the operation returns as usual.
FailWrite ==
    /\ wr # None
    /\ \E d \in {wr.before, Truncated} :
          /\ disk' = d
          /\ done' = Done(wr.op, wr.by, wr.key, LoadSessions(wr.before), mem[wr.by].sessions,
                          wr.value, TRUE, FALSE, d)
    /\ wr' = None
    /\ UNCHANGED <<now, ticks, mem>>

\* The process stops between the open and the end of the write.
StopInWrite ==
    /\ wr # None
    /\ mem' = [mem EXCEPT ![wr.by] = [open |-> FALSE, sessions |-> None]]
    /\ done' = [n |-> done.n + 1, op |-> "stopped", by |-> wr.by, key |-> wr.key,
                before |-> LoadSessions(wr.before), sessions |-> wr.doc]
    /\ wr' = None
    /\ UNCHANGED <<now, ticks, disk>>

\* The process ends.
ExitProcess(i) ==
    /\ wr = None
    /\ mem[i].open
    /\ mem' = [mem EXCEPT ![i] = [open |-> FALSE, sessions |-> None]]
    /\ UNCHANGED <<now, ticks, disk, wr, done>>

\* The clock moves on between two operations.
DiskTick ==
    /\ wr = None
    /\ ticks < MaxTicks
    /\ \E d \in TickSteps : now' = now + d
    /\ ticks' = ticks + 1
    /\ UNCHANGED diskVars

DiskUnchanged ==
    UNCHANGED <<cacheVars, clientVars, handlerVars, serializeVars, tracksVars, servicesVars,
                retryVars, configVars, fileVars, titleVars, licenseVars, cookieVars,
                profileVars>>

\* One client process, its writes failing or cut short at times.
DiskNext ==
    \/ OpenCache("A") /\ DiskUnchanged
    \/ StartOperation("A") /\ DiskUnchanged
    \/ FinishWrite /\ DiskUnchanged
    \/ FailWrite /\ DiskUnchanged
    \/ StopInWrite /\ DiskUnchanged
    \/ ExitProcess("A") /\ DiskUnchanged
    \/ DiskTick /\ DiskUnchanged

DiskSpec == InitCommon /\ [][DiskNext]_vars

\* Two client processes on the same cache directory, every write completing.
SharedNext ==
    \/ \E i \in Processes : OpenCache(i) /\ DiskUnchanged
    \/ \E i \in Processes : StartOperation(i) /\ DiskUnchanged
    \/ FinishWrite /\ DiskUnchanged
    \/ DiskTick /\ DiskUnchanged

SharedSpec == InitCommon /\ [][SharedNext]_vars

\* C32: the cache document is rewritten atomically: when the process stops
\* during the write of a store, delete or cleanup, the file holds the
\* complete document from before the operation or the complete document
\* after it, never an empty or partial one.
C32_AtomicRewrite ==
    done.op = "stopped" =>
        /\ disk.state # "partial"
        /\ LoadSessions(disk) \in {done.before, done.sessions}

\* C37: after every completed store_session, delete_session, expired
\* get_session or cleanup_expired that saves, the persisted document equals
\* the in-memory map, so that a cache built afterwards loads the same
\* entries; no operation returns as usual while the two differ.
C37_PersistedEqualsMemory ==
    (done.op \in {"store", "delete", "get", "cleanup"} /\ done.saved) =>
        done.loaded = done.sessions

\* The entries of the map s that are not expired at time t.
Unexpired(s, t) == { k \in KeysOf(s) : ~CleanupExpires(EntryOf(s, k), t) }

\* C38: with two caches on one directory, an entry stored through one is
\* not lost from the file by a store_session, delete_session or
\* cleanup_expired made through the other on a different key.
C38_NoLostStore ==
    (done.op \in {"store", "delete", "cleanup"} /\ done.wrote) =>
        \A k \in Unexpired(done.before, now) \ {done.key} :
            /\ k \in KeysOf(done.loaded)
            /\ EntryOf(done.loaded, k) = EntryOf(done.before, k)

----------------------------------------------------------------------------
(* CookieSpec: load_cookies_from_content and its temporary file
   (api/remote_handlers.py:34-59).  tmp is the set of temporary files that
   exist on the server, loaded the last call of the function. *)

MaxCookieCalls == 3

CookieNames == {"sid", "tok"}

\* Cookie text a client can send: "" (nothing), or a text with or without the
\* Netscape magic line, with some cookie lines, that the text file's encoding
\* can or cannot encode (a lone surrogate such as "\ud800" in the JSON body
\* is a str that utf-8 refuses).
SampleCookieContents ==
    {[empty |-> TRUE, magic |-> FALSE, cookies |-> {}, encodable |-> TRUE]}
    \cup [empty : {FALSE}, magic : BOOLEAN, cookies : SUBSET CookieNames,
          encodable : BOOLEAN]

\* MozillaCookieJar.load: LoadError unless the file starts with the magic line.
JarLoadRaises(content) == ~content.magic

\* f.write(cookies_content) inside the with block: raises when the text cannot
\* be encoded or the disk is full.
TempWriteRaises(content, diskFull) == ~content.encodable \/ diskFull

\* The whole function.  Lines 45-46 return None for no content.  Lines 49-51
\* create the file (delete=False), write and close it, outside the try; only
\* lines 53-59 (the load) run under the finally that unlinks temp_path.
LoadCookiesFromContent(content, name, diskFull, existing) ==
    IF content.empty
    THEN [raised |-> "none", value |-> None, created |-> {}, files |-> existing]
    ELSE IF TempWriteRaises(content, diskFull)
    THEN [raised |-> "write", value |-> None, created |-> {name},
          files |-> existing \cup {name}]
    ELSE IF JarLoadRaises(content)
    THEN [raised |-> "load", value |-> None, created |-> {name},
          files |-> (existing \cup {name}) \ {name}]
    ELSE [raised |-> "none", value |-> <<content.cookies>>, created |-> {name},
          files |-> (existing \cup {name}) \ {name}]

\* One call of load_cookies_from_content; NamedTemporaryFile picks a new name.
LoadCookies ==
    /\ (IF loaded = None THEN 0 ELSE loaded.n) < MaxCookieCalls
    /\ \E content \in SampleCookieContents, diskFull \in BOOLEAN :
         LET n == IF loaded = None THEN 1 ELSE loaded.n + 1
             r == LoadCookiesFromContent(content, n, diskFull, tmp)
         IN  /\ tmp' = r.files
             /\ loaded' = [n |-> n, content |-> content, raised |-> r.raised,
                           value |-> r.value, created |-> r.created]
    /\ UNCHANGED <<now, ticks, cacheVars, clientVars, handlerVars, serializeVars, tracksVars,
                   servicesVars, retryVars, configVars, fileVars, titleVars, diskVars,
                   licenseVars, profileVars>>

CookieNext == LoadCookies

CookieSpec == InitCommon /\ [][CookieNext]_vars

\* C34: when load_cookies_from_content has returned or raised, the temporary
\* file it wrote for the client's cookies no longer exists, on every path.
C34_NoTempFileLeft ==
    loaded # None => loaded.created \cap tmp = {}

\* The parse-failure path by itself does remove the file.
C34_ParseFailureCleans ==
    (loaded # None /\ loaded.raised = "load") => loaded.created \cap tmp = {}

C34_WitnessParseFailure ==
    loaded # None /\ loaded.raised = "load" /\ loaded.created # {}

----------------------------------------------------------------------------
(* ProfileSpec: a session saved by RemoteAuthenticator.authenticate_and_save
   and looked up by RemoteService._make_request (remote_auth.py:134-211,
   remote_service.py:61, 86-89, 188-190).  saved.sessions is the local cache,
   saved.given the arguments of the saves made; found is the last lookup,
   with the saves made before it. *)

MaxSaves == 2

ProfileUrls == {"https://r1", "https://r1/", "https://r2"}

\* --profile as the command line gives it: absent (None) or a name.
ProfileOptions == {None, <<"default">>, <<"john">>}

\* authenticate_service_locally puts session_data["profile"] = profile (line
\* 139), so save_session_locally's session_data.get("profile", "default")
\* (line 166) finds the key and returns its value, None included.  The key
\* None of the map is written "null", as json.dumps writes it to the file.
SavedProfileKey(profile) == IF profile = None THEN "null" ELSE profile[1]

\* RemoteService.__init__: self.profile = ctx.obj.profile or "default".
ServiceProfile(profile) == IF profile = None THEN "default" ELSE profile[1]

\* authenticate_and_save(service_tag, profile) of RemoteAuthenticator(remote_url).
AuthenticateAndSaveProfile ==
    /\ Cardinality(saved.given) < MaxSaves
    /\ \E url \in ProfileUrls, tag \in Tags, profile \in ProfileOptions :
         LET session_data == [service_tag |-> tag, profile |-> profile, authenticated |-> TRUE]
         IN  saved' = [sessions |-> StoreSession(saved.sessions, Rstrip(url), tag,
                                                 SavedProfileKey(profile), session_data, now),
                       given |-> saved.given \cup {<<url, tag, profile>>}]
    /\ UNCHANGED found
    /\ UNCHANGED <<now, ticks, cacheVars, clientVars, handlerVars, serializeVars, tracksVars,
                   servicesVars, retryVars, configVars, fileVars, titleVars, diskVars,
                   licenseVars, cookieVars>>

\* A request of RemoteService(remote_url, service_tag) run with the profile of
\* the context: cache.get_session(self.remote_url, self.service_tag, self.profile).
LookupSession ==
    /\ \E url \in ProfileUrls, tag \in Tags, profile \in ProfileOptions :
         LET g == GetSession(saved.sessions, Rstrip(url), tag, ServiceProfile(profile), now)
         IN  found' = <<[url |-> url, tag |-> tag, profile |-> profile, value |-> g.value,
                        given |-> saved.given]>>
    /\ UNCHANGED saved
    /\ UNCHANGED <<now, ticks, cacheVars, clientVars, handlerVars, serializeVars, tracksVars,
                   servicesVars, retryVars, configVars, fileVars, titleVars, diskVars,
                   licenseVars, cookieVars>>

ProfileNext == AuthenticateAndSaveProfile \/ LookupSession

ProfileSpec == InitCommon /\ [][ProfileNext]_vars

\* The lookup asks for what a save before it was made for: the same remote (a trailing
\* slash apart), the same service, the same profile (none given on both sides
\* counts as the same).
SavedFor(f) ==
    \E g \in f.given :
        Rstrip(g[1]) = Rstrip(f.url) /\ g[2] = f.tag /\ g[3] = f.profile

\* C35: a session saved by authenticate_and_save(service_tag, profile) is found
\* by a later RemoteService request for the same remote, service and profile,
\* also when no profile is given and when the URL ends with a slash.
C35_SavedSessionFound ==
    \A f \in { found[i] : i \in DOMAIN found } : SavedFor(f) => f.value # None

\* With a profile named on both sides the session is found, trailing slash or not.
C35_NamedProfileFound ==
    \A f \in { found[i] : i \in DOMAIN found } : (SavedFor(f) /\ f.profile # None) => f.value # None

C35_WitnessSlash ==
    \E f \in { found[i] : i \in DOMAIN found } :
        /\ f.url = "https://r1/" /\ f.profile # None /\ f.value # None
        /\ <<"https://r1", f.tag, f.profile>> \in f.given


----------------------------------------------------------------------------
(* A rejected request and the adapter (remote_handlers.py:478-546, 575-613) *)

\* The request was turned down before the adapter: INVALID_PROXY, a missing
\* identifier or an unknown service.
RejectedBeforeAdapter ==
    /\ hresp.status = 400
    /\ AnsweredInvalidProxy \/ ~hbody.body.ident \/ ~hbody.service_ok

\* The request was answered SESSION_EXPIRED, or AUTH_REQUIRED because
\* get_auth_from_request found no record, cookies or credential.
RejectedForLackOfAuth ==
    LET auth == GetAuthFromRequest(hbody.body, now, hbody.env)
    IN  \/ hresp.error_code = "SESSION_EXPIRED"
        \/ /\ hresp.error_code = "AUTH_REQUIRED"
           /\ auth.pre = None /\ ~auth.cookies /\ ~auth.credential

\* The first two parts of C40: a request rejected before the adapter never
\* constructs it, one rejected for lack of authentication never calls
\* authenticate or the adapter's operation.
RejectedRunsNothing ==
    /\ RejectedBeforeAdapter => hresp.did = <<>>
    /\ RejectedForLackOfAuth => /\ ~Did(hresp, "authenticate")
                                /\ ~Did(hresp, "deserialize")
                                /\ ~Did(hresp, "operation")

C40_WitnessProxy ==
    /\ hresp # None
    /\ AnsweredInvalidProxy
    /\ hresp.did = <<>>
    /\ hbody.endpoint = "titles"

C40_WitnessNoAuth ==
    /\ hresp # None
    /\ hresp.error_code = "AUTH_REQUIRED"
    /\ RejectedForLackOfAuth
    /\ hresp.did = <<"construct">>

----------------------------------------------------------------------------
(* LicenseSpec: remote_get_license and remote_decrypt step by step
   (api/remote_handlers.py:1232-1473, 1563-1879; api/api_keys.py:11-73).
   lreq is the request being served, lres the handler's answer: the
   environment it met, the response, and the events it caused in order:
   "json" (the body is read), "cdm.open", "challenge", "cdm.close",
   "construct" (the adapter), "deserialize", "authenticate", "get_titles",
   "get_tracks", "post" (the challenge goes to the license URL), "parse". *)

\* config of the application: api_keys (one entry without a tier) and the
\* legacy users list.
AppApiKeys ==
    <<[key |-> "kp", tier |-> <<"premium">>],
      [key |-> "kb", tier |-> <<"basic">>],
      [key |-> "kn", tier |-> None]>>

AppUsers == {"kl"}

\* Header values of the model: "" is an absent header, "kx" a key the
\* configuration does not know.
ApiKeyHeaders == {"", "kp", "kb", "kn", "kl", "kx"}
AuthorizationHeaders == {"", "Bearer kp", "Bearer kb"}

\* request.headers.get("Authorization", "").replace("Bearer ", "")
BearerStripped(authorization) ==
    CASE authorization = "Bearer kp" -> "kp"
      [] authorization = "Bearer kb" -> "kb"
      [] OTHER -> authorization

\* get_api_key_from_request
GetApiKeyFromRequest(headers) ==
    IF headers.x_api_key # "" THEN headers.x_api_key
    ELSE BearerStripped(headers.authorization)

\* get_api_key_config: the first api_keys entry of the key, else a basic
\* entry for a key of the users list, else None.
GetApiKeyConfig(api_key) ==
    LET entries == { i \in DOMAIN AppApiKeys : AppApiKeys[i].key = api_key }
    IN  IF entries # {} THEN <<AppApiKeys[FirstIndex(entries)]>>
        ELSE IF api_key \in AppUsers THEN <<[key |-> api_key, tier |-> <<"basic">>]>>
        ELSE None

\* A tier test that takes an entry without a tier for premium: not the
\* code's, C31 tells them apart.
IsPremiumUserByDefault(api_key) ==
    LET key_config == GetApiKeyConfig(api_key)
    IN  IF key_config = None THEN FALSE
        ELSE (IF key_config[1].tier = None THEN "premium" ELSE key_config[1].tier[1]) = "premium"

\* is_premium_user: key_config.get("tier", "basic") == "premium".
IsPremiumUser(api_key) ==
    LET key_config == GetApiKeyConfig(api_key)
    IN  IF key_config = None THEN FALSE
        ELSE (IF key_config[1].tier = None THEN "basic" ELSE key_config[1].tier[1]) = "premium"

\* A DRM object of a track: whether it has the attribute license_url, and
\* its value ("" for None).
LICENSE_URL == "https://lic"
DrmWithUrl == [has_license_url |-> TRUE, license_url |-> LICENSE_URL]
DrmEmptyUrl == [has_license_url |-> TRUE, license_url |-> ""]
DrmNoUrl == [has_license_url |-> FALSE, license_url |-> ""]

\* tracks.videos + tracks.audio as get_tracks returns them: each track its
\* id and its drm list (<<>> for no drm attribute, None or an empty list).
SampleTrackLists ==
    {<<>>,
     <<[id |-> "1", drm |-> <<DrmWithUrl>>]>>,
     <<[id |-> "1", drm |-> <<>>]>>,
     <<[id |-> "1", drm |-> <<DrmNoUrl>>]>>,
     <<[id |-> "1", drm |-> <<DrmEmptyUrl>>]>>,
     <<[id |-> "1", drm |-> <<DrmEmptyUrl, DrmWithUrl>>]>>,
     <<[id |-> "2", drm |-> <<DrmWithUrl>>], [id |-> "1", drm |-> <<DrmNoUrl, DrmWithUrl>>]>>,
     <<[id |-> "1", drm |-> <<>>], [id |-> "1", drm |-> <<DrmWithUrl>>]>>}

\* A track search that takes the first track whatever its id: not the
\* code's, C33 tells them apart.
FindTrackAnyId(tracks, track_id) ==
    IF tracks = <<>> THEN None ELSE <<tracks[1]>>

\* The loop over tracks.videos + tracks.audio: the first track whose id is
\* track_id, or None.
FindTrack(tracks, track_id) ==
    LET matching == { i \in DOMAIN tracks : tracks[i].id = track_id }
    IN  IF matching = {} THEN None ELSE <<tracks[FirstIndex(matching)]>>

\* The loop over target_track.drm: the license_url of the first DRM object
\* that has the attribute, "" (None) when none has it.
LicenseUrlOf(drm) ==
    LET having == { i \in DOMAIN drm : drm[i].has_license_url }
    IN  IF having = {} THEN "" ELSE drm[FirstIndex(having)].license_url

\* An answer of a handler.
Answer(status, error_code, events) ==
    [status |-> status, error_code |-> error_code, events |-> events]

\* From the adapter's construction to the answer: remote_get_license lines
\* 1362-1473 (closing FALSE), remote_decrypt lines 1747-1866 (closing TRUE: each
\* return is preceded by cdm.close(session_id), and the license is parsed).
\* An exception outside the try of the authentication reaches the handler's
\* except clause, which answers 500.
ResolveAndRequest(rq, env, time, events, closing) ==
    LET close(ev) == IF closing THEN ev \o <<"cdm.close">> ELSE ev
        auth == GetAuthFromRequest(rq.body, time, env)
        e1 == events \o <<"construct">>
        e2 == e1 \o <<IF auth.pre # None THEN "deserialize" ELSE "authenticate">>
        e3 == e2 \o <<"get_titles">>
        e4 == e3 \o <<"get_tracks">>
        e5 == e4 \o <<"post">>
        e6 == e5 \o <<"parse">>
        target_track == FindTrack(env.tracks, rq.body.track_id)
    IN  IF env.raises = "construct" THEN Answer(500, "", e1)
        ELSE IF auth.session_error = "SESSION_EXPIRED"
        THEN Answer(401, "SESSION_EXPIRED", close(e1))
        ELSE IF auth.pre = None /\ ~auth.cookies /\ ~auth.credential
        THEN Answer(401, "AUTH_REQUIRED", close(e1))
        ELSE IF env.raises = "authenticate" THEN Answer(401, "AUTH_REQUIRED", close(e2))
        ELSE IF env.raises = "get_titles" THEN Answer(500, "", e3)
        ELSE IF env.raises = "get_tracks" THEN Answer(500, "", e4)
        ELSE IF target_track = None THEN Answer(404, "", close(e4))
        ELSE IF target_track[1].drm = <<>> THEN Answer(400, "", close(e4))
        ELSE IF LicenseUrlOf(target_track[1].drm) = "" THEN Answer(400, "", close(e4))
        ELSE IF ~closing /\ env.raises = "challenge" THEN Answer(500, "", e4)
        ELSE IF env.raises = "post" THEN Answer(500, "", e5)
        ELSE IF env.license_status # 200 THEN Answer(500, "", close(e5))
        ELSE IF ~closing THEN Answer(200, "", e5)
        ELSE IF env.raises = "parse" THEN Answer(500, "", e6)
        ELSE Answer(200, "", close(e6))

\* remote_get_license: body, required fields, service, proxy, then the adapter.
RemoteGetLicense(rq, env, time) ==
    IF ~rq.body.ident THEN Answer(400, "", <<"json">>)
    ELSE IF ~env.service_ok THEN Answer(400, "", <<"json">>)
    ELSE IF ProxyRejected(rq.body) THEN Answer(400, "INVALID_PROXY", <<"json">>)
    ELSE ResolveAndRequest(rq, env, time, <<"json">>, FALSE)

\* remote_decrypt: the API key and its tier, body, required fields, CDM,
\* service, the device, cdm.open and the challenge, then the adapter.
RemoteDecrypt(rq, env, time) ==
    LET api_key == GetApiKeyFromRequest(rq.headers)
        opened == <<"json", "cdm.open">>
        challenged == opened \o <<"challenge">>
    IN  IF api_key = "" THEN Answer(401, "NO_API_KEY", <<>>)
        ELSE IF ~IsPremiumUser(api_key) THEN Answer(403, "PREMIUM_REQUIRED", <<>>)
        ELSE IF ~rq.body.ident THEN Answer(400, "", <<"json">>)
        ELSE IF env.cdm = "no_default" THEN Answer(400, "", <<"json">>)
        ELSE IF env.cdm = "not_allowed" THEN Answer(403, "CDM_NOT_ALLOWED", <<"json">>)
        ELSE IF ~env.service_ok THEN Answer(400, "", <<"json">>)
        ELSE IF env.cdm = "no_device" THEN Answer(404, "", <<"json">>)
        ELSE IF env.raises = "device" THEN Answer(500, "", <<"json">>)
        ELSE IF env.raises = "challenge" THEN Answer(500, "", challenged)
        ELSE IF rq.body.license_url THEN Answer(400, "", challenged \o <<"cdm.close">>)
        ELSE IF ProxyRejected(rq.body)
        THEN Answer(400, "INVALID_PROXY", challenged \o <<"cdm.close">>)
        ELSE ResolveAndRequest(rq, env, time, challenged, TRUE)

\* Proxy fields of a body: none, a resolved URI, a provider token, and the
\* token with no_proxy set.
LicenseProxies ==
    {[proxy |-> <<>>, no_proxy |-> FALSE], [proxy |-> ProxyUri, no_proxy |-> FALSE],
     [proxy |-> ProxyToken, no_proxy |-> FALSE], [proxy |-> ProxyToken, no_proxy |-> TRUE]}

LicenseRecords ==
    {None, ExpiredRecord, AuthenticateServiceLocally(SERVICE_TAG, PROFILE, AdapterLogin(now))}

\* The bodies of the model; all of them for /license, and for /decrypt with
\* the premium key.
LicenseBodies(endpoint) ==
    { [ident |-> ident, track_id |-> track_id, license_url |-> license_url,
       proxy |-> p.proxy, no_proxy |-> p.no_proxy, pre |-> pre, cookies |-> cookies,
       credential |-> FALSE] :
      ident \in BOOLEAN, track_id \in {"1", "3"},
      license_url \in (IF endpoint = "decrypt" THEN BOOLEAN ELSE {FALSE}),
      p \in LicenseProxies, pre \in LicenseRecords, cookies \in BOOLEAN }

\* What the handler meets on the server while it runs.
LicenseEnvs(endpoint) ==
    [service_ok : BOOLEAN, server_auth : {FALSE},
     cdm : IF endpoint = "decrypt" THEN {"ok", "no_default", "not_allowed", "no_device"}
           ELSE {"ok"},
     raises : {"none", "challenge", "construct", "authenticate", "get_titles",
               "get_tracks", "post"}
              \cup (IF endpoint = "decrypt" THEN {"device", "parse"} ELSE {}),
     tracks : SampleTrackLists,
     license_status : {200, 403}]

\* A POST /api/remote/<tag>/license or /decrypt arrives.  A /decrypt request
\* comes with any of the headers and a complete body, or with the premium key
\* and any body.
ReceiveLicenseRequest ==
    /\ lreq = None
    /\ \E endpoint \in {"license", "decrypt"} :
         \E x_api_key \in (IF endpoint = "decrypt" THEN ApiKeyHeaders ELSE {"kb"}),
            authorization \in (IF endpoint = "decrypt" THEN AuthorizationHeaders ELSE {""}),
            body \in LicenseBodies(endpoint) :
           /\ (x_api_key = "kp" /\ authorization = "")
              \/ endpoint = "license"
              \/ (body.ident /\ body.pre = None /\ body.proxy = <<>> /\ body.track_id = "1")
           /\ lreq' = <<[endpoint |-> endpoint,
                         headers |-> [x_api_key |-> x_api_key, authorization |-> authorization],
                         body |-> body]>>
    /\ lres' = None
    /\ UNCHANGED <<now, ticks, cacheVars, clientVars, handlerVars, serializeVars, tracksVars,
                   servicesVars, retryVars, configVars, fileVars, titleVars, diskVars,
                   cookieVars, profileVars>>

\* The handler runs and answers.
HandleLicenseRequest ==
    /\ lreq # None
    /\ lres = None
    /\ \E env \in LicenseEnvs(lreq[1].endpoint) :
         LET answer == IF lreq[1].endpoint = "decrypt" THEN RemoteDecrypt(lreq[1], env, now)
                       ELSE RemoteGetLicense(lreq[1], env, now)
         IN  lres' = <<[env |-> env, status |-> answer.status,
                        error_code |-> answer.error_code, events |-> answer.events]>>
    /\ UNCHANGED <<now, ticks, cacheVars, clientVars, handlerVars, serializeVars, tracksVars,
                   servicesVars, retryVars, configVars, fileVars, titleVars, diskVars,
                   lreq, cookieVars, profileVars>>

\* The response is sent.
SendLicenseResponse ==
    /\ lres # None
    /\ lreq' = None
    /\ lres' = None
    /\ UNCHANGED <<now, ticks, cacheVars, clientVars, handlerVars, serializeVars, tracksVars,
                   servicesVars, retryVars, configVars, fileVars, titleVars, diskVars,
                   cookieVars, profileVars>>

LicenseNext ==
    \/ ReceiveLicenseRequest
    \/ HandleLicenseRequest
    \/ SendLicenseResponse

LicenseSpec == InitCommon /\ [][LicenseNext]_vars

\* The positions of an event in the answer's events.
Positions(event) == { i \in DOMAIN lres[1].events : lres[1].events[i] = event }

Answered(endpoint) == lres # None /\ lreq[1].endpoint = endpoint

\* The keys the configuration gives the tier premium.
PremiumKeys ==
    { AppApiKeys[i].key : i \in { j \in DOMAIN AppApiKeys : AppApiKeys[j].tier = <<"premium">> } }

\* C31: a /decrypt request whose API key is missing or not of tier premium
\* (a key of the legacy users list and an unknown key included) is answered
\* 401 NO_API_KEY (missing) or 403 PREMIUM_REQUIRED (not premium) before the
\* body is read, and opens no CDM session, builds no adapter and reaches no
\* license server.
C31_NonPremiumRejectedFirst ==
    (Answered("decrypt") /\ GetApiKeyFromRequest(lreq[1].headers) \notin PremiumKeys) =>
        /\ IF lreq[1].headers.x_api_key = "" /\ lreq[1].headers.authorization = ""
           THEN lres[1].status = 401 /\ lres[1].error_code = "NO_API_KEY"
           ELSE lres[1].status = 403 /\ lres[1].error_code = "PREMIUM_REQUIRED"
        /\ lres[1].events = <<>>

C31_Witness ==
    /\ Answered("decrypt")
    /\ lreq[1].headers.x_api_key = "kl"
    /\ lres[1].status = 403
    /\ lres[1].env.cdm = "ok"
    /\ lres[1].events = <<>>

C31_WitnessMissing ==
    /\ Answered("decrypt")
    /\ lreq[1].headers = [x_api_key |-> "", authorization |-> ""]
    /\ lres[1].status = 401

C31_WitnessPremium ==
    /\ Answered("decrypt")
    /\ lreq[1].headers.authorization = "Bearer kp"
    /\ lreq[1].headers.x_api_key = ""
    /\ lres[1].status = 200

\* A track of the environment has the id track_id and a DRM object with a
\* license URL.
MatchingDrmTrack ==
    \E i \in DOMAIN lres[1].env.tracks :
        /\ lres[1].env.tracks[i].id = lreq[1].body.track_id
        /\ \E j \in DOMAIN lres[1].env.tracks[i].drm :
               /\ lres[1].env.tracks[i].drm[j].has_license_url
               /\ lres[1].env.tracks[i].drm[j].license_url # ""

\* The handler got the tracks: authentication, get_titles and get_tracks
\* went through.
GotTracks ==
    /\ Positions("get_tracks") # {}
    /\ lres[1].env.raises \notin {"get_titles", "get_tracks"}

\* C33: for a /license request the challenge is POSTed at most once, and only
\* after authentication or rehydration, then get_titles, then get_tracks,
\* and with a track of id track_id that has DRM with a license URL; in every
\* other case nothing is POSTed and an error is answered: 404 when no track
\* has the id, 400 when the track has no DRM or no license URL.
C33_LicensePostOnlyWhenResolved ==
    Answered("license") =>
        /\ Cardinality(Positions("post")) <= 1
        /\ \A p \in Positions("post") :
               /\ \E a \in Positions("deserialize") \cup Positions("authenticate") :
                  \E t \in Positions("get_titles") :
                  \E g \in Positions("get_tracks") : a < t /\ t < g /\ g < p
               /\ lres[1].env.raises \notin {"construct", "authenticate", "get_titles", "get_tracks"}
               /\ MatchingDrmTrack
        /\ Positions("post") = {} => lres[1].status >= 400
        /\ lres[1].status = 200 => Positions("post") # {}
        /\ (GotTracks /\ FindTrack(lres[1].env.tracks, lreq[1].body.track_id) = None)
               => lres[1].status = 404
        /\ (GotTracks /\ ~MatchingDrmTrack
                      /\ FindTrack(lres[1].env.tracks, lreq[1].body.track_id) # None)
               => lres[1].status = 400

C33_Witness ==
    /\ Answered("license")
    /\ lres[1].status = 200
    /\ Positions("post") # {}
    /\ lreq[1].body.pre # None

C33_WitnessNotFound ==
    /\ Answered("license")
    /\ lres[1].status = 404
    /\ lres[1].env.tracks # <<>>

C33_WitnessNoUrl ==
    /\ Answered("license")
    /\ lres[1].status = 400
    /\ GotTracks
    /\ FindTrack(lres[1].env.tracks, lreq[1].body.track_id) # None

\* C36: every CDM session remote_decrypt opens is closed before the handler
\* returns, on every exit path.
C36_CdmSessionClosed ==
    Answered("decrypt") =>
        \A o \in Positions("cdm.open") : \E c \in Positions("cdm.close") : o < c

\* The returns of remote_decrypt do close the session: success and every
\* error return; the exceptions are what is left open.
C36_ReturnsClose ==
    (Answered("decrypt") /\ Positions("cdm.open") # {} /\ Positions("cdm.close") = {}) =>
        /\ lres[1].status = 500
        /\ lres[1].env.raises \in {"challenge", "construct", "get_titles", "get_tracks",
                                   "post", "parse"}

C36_WitnessSuccess ==
    /\ Answered("decrypt")
    /\ lres[1].status = 200
    /\ Positions("cdm.close") # {}

============================================================================
